---- MODULE Spec2Model ----
(***************************************************************************)
(* yolo: devcontainer + git worktree launcher (src/yolo.py).               *)
(*                                                                         *)
(* One invocation of main() is one step of the model.  The world that      *)
(* survives between invocations is the filesystem, the container           *)
(* runtime's list of containers and the git repository of the project.     *)
(* Every invocation draws its command line, its environment, its working   *)
(* directory and the outcome of each external command it runs, and leaves  *)
(* behind the log of what it did and its exit status.                      *)
(*                                                                         *)
(* Paths are sequences of components (<<>> is the filesystem root), text   *)
(* files are sequences of tokens, optional values (None | str) are         *)
(* sequences of length 0 or 1.                                             *)
(***************************************************************************)
EXTENDS Integers, Sequences, FiniteSets, TLC

VARIABLES
    fs,          \* [dirs : set of paths, files : path -> text]
    containers,  \* the runtime's "ps -a": sequence of [name, folder, state]
    repo,        \* git's state of the project repository
    environ,     \* os.environ of the current invocation
    cwd,         \* Path.cwd() at the end of the current invocation
    args,        \* the parsed argparse.Namespace of the current invocation
    log,         \* what the current invocation did, in order
    status,      \* "idle" | "ok" (exit 0) | "error" (sys.exit) | "crash"
    ret,         \* return value of the last direct function call
    runs         \* number of invocations so far

vars == <<fs, containers, repo, environ, cwd, args, log, status, ret, runs>>

----------------------------------------------------------------------------
(* Bounds of the model *)

MaxRuns == 2          \* invocations per behaviour
MaxModeFlags == 2     \* mode flags combined on one command line
MaxRandom == 1        \* entries of each word list generate_random_name draws from
MaxBlocks == 2        \* blocks of a "git worktree list --porcelain" output

----------------------------------------------------------------------------
(* Paths (pathlib.Path) *)

\* a relative path starts with the component "."; Path('') is <<".">>
Parent(p) == IF p \in {<<>>, <<".">>} THEN p ELSE SubSeq(p, 1, Len(p) - 1)

PathName(p) == IF p \in {<<>>, <<".">>} THEN "" ELSE p[Len(p)]

\* str(path) as a text of components and "/" separators
StrOf(p) ==
    IF p = <<>> THEN <<"/">>
    ELSE [ i \in 1..(2 * Len(p)) |-> IF i % 2 = 1 THEN "/" ELSE p[i \div 2] ]

RECURSIVE rstrip(_, _)
\* str.rstrip(ch)
rstrip(text, ch) ==
    IF text # <<>> /\ text[Len(text)] = ch
    THEN rstrip(SubSeq(text, 1, Len(text) - 1), ch)
    ELSE text

\* pathlib.Path(text): separators and "." components go; absolute when the
\* text starts with "/"
PurePath(text) ==
    (IF text # <<>> /\ text[1] = "/" THEN <<>> ELSE <<".">>)
      \o SelectSeq(text, LAMBDA c : c \notin {"/", "."})

\* the components of a name joined to a path with "/"
PathParts(name) ==
    CASE name = "" -> <<>>
      [] name = "fix/x" -> <<"fix", "x">>
      [] OTHER -> <<name>>

IsPrefix(p, q) == Len(p) <= Len(q) /\ SubSeq(q, 1, Len(p)) = p

Ancestors(p) == { SubSeq(p, 1, k) : k \in 0..Len(p) }

Exists(f, p) == p \in f.dirs \/ p \in DOMAIN f.files

mkdir_parents(f, p) == [f EXCEPT !.dirs = f.dirs \cup Ancestors(p)]

mkdir(f, p) == [f EXCEPT !.dirs = f.dirs \cup {p}]

write_text(f, p, text) == [f EXCEPT !.files = (p :> text) @@ f.files]

Rebase(q, src, dst) == dst \o SubSeq(q, Len(src) + 1, Len(q))

copytree(f, src, dst) ==
    LET srcDirs == { q \in f.dirs : IsPrefix(src, q) }
        srcFiles == { q \in DOMAIN f.files : IsPrefix(src, q) }
        copied == [ q \in { Rebase(x, src, dst) : x \in srcFiles } |->
                      f.files[CHOOSE x \in srcFiles : Rebase(x, src, dst) = q] ]
    IN [dirs |-> f.dirs \cup { Rebase(q, src, dst) : q \in srcDirs },
        files |-> copied @@ f.files]

----------------------------------------------------------------------------
(* The universe the model draws from *)

Home == <<"home">>
ProjectRoot == <<"home", "App">>
NestedDir == <<"home", "App", "src">>
ForeignFolder == <<"srv", "App-worktrees", "t">>
GlobalConfigFile == <<"home", ".config", "yolo", "config.toml">>

TreeNames == {"main", "feat", "fix/x"}
CreateNames == {"App"}

None == <<>>
Some(v) == <<v>>
Truthy(opt) == opt # <<>> /\ opt[1] # ""

----------------------------------------------------------------------------
(* Log entries *)

Ev(op, path, arg, ok) == [op |-> op, path |-> path, arg |-> arg, ok |-> ok]

Emit(s, e) == [s EXCEPT !.log = Append(s.log, e)]

Exit(s, msg) == [Emit(s, Ev("sys.exit", <<>>, msg, FALSE)) EXCEPT !.status = "error"]

Crash(s, exc) == [Emit(s, Ev("raise", <<>>, exc, FALSE)) EXCEPT !.status = "crash"]

Running(s) == s.status = "running"

----------------------------------------------------------------------------
(* Configuration and templates *)

DEFAULT_CONFIG ==
    [base_image |-> "localhost/emacs-gui:latest",
     pass_path_anthropic |-> "api/llm/anthropic",
     pass_path_openai |-> "api/llm/openai"]

DEVCONTAINER_JSON_TEMPLATE ==
    <<"{", "name", "PROJECT_NAME", "build", "Dockerfile",
      "mounts", "[",
      "source=/tmp/.X11-unix,target=/tmp/.X11-unix,type=bind",
      "source=${localEnv:HOME}/.claude,target=/home/tsb/.claude,type=bind",
      "source=${localEnv:HOME}/.claude.json,target=/home/tsb/.claude.json,type=bind",
      "source=${localEnv:HOME}/.zshrc,target=/home/tsb/.zshrc,type=bind,readonly",
      "source=${localEnv:HOME}/.tmux.conf,target=/home/tsb/.tmux.conf,type=bind,readonly",
      "source=${localEnv:HOME}/.config/tmux,target=/home/tsb/.config/tmux,type=bind,readonly",
      "source=${localEnv:XDG_RUNTIME_DIR}/${localEnv:WAYLAND_DISPLAY},target=/tmp/runtime-1000/${localEnv:WAYLAND_DISPLAY},type=bind",
      "source=${localEnv:HOME}/.config/emacs,target=/home/tsb/.config/emacs,type=bind",
      "source=${localEnv:HOME}/.cache/emacs,target=/home/tsb/.cache/emacs,type=bind",
      "]", "containerEnv", "TERM,DISPLAY,WAYLAND_DISPLAY,XDG_RUNTIME_DIR,ANTHROPIC_API_KEY,OPENAI_API_KEY",
      "}">>

DOCKERFILE_TEMPLATE ==
    <<"FROM", "BASE_IMAGE", "USER root", "RUN apk add --no-cache nodejs npm",
      "LABEL devcontainer.metadata", "WORKDIR /workspace", "USER tsb">>

\* str.replace on a tokenised text: every occurrence of the placeholder token
Replace(text, old, new) == [i \in 1..Len(text) |-> IF text[i] = old THEN new ELSE text[i]]

----------------------------------------------------------------------------
(* load_config: defaults, then the global file, then .yolo.toml of the cwd *)

\* tomllib.load of a tokenised file of "key = value" lines; a text that is not
\* such a list, or that repeats a key, raises TOMLDecodeError
TomlLines(text) == Len(text) \div 3

TomlOk(text) ==
    /\ Len(text) % 3 = 0
    /\ \A i \in 1..TomlLines(text) : text[3 * i - 1] = "="
    /\ \A i, j \in 1..TomlLines(text) : text[3 * i - 2] = text[3 * j - 2] => i = j

TomlDict(text) ==
    [ k \in { text[3 * i - 2] : i \in 1..TomlLines(text) } |->
        text[3 * (CHOOSE i \in 1..TomlLines(text) : text[3 * i - 2] = k)] ]

\* an update that keeps the value a key already has
UpdateKeepsOld(d, e) == d @@ e

\* dict.update
Update(d, e) == e @@ d

load_config(s) ==
    LET global_config_file == GlobalConfigFile
        project_config_file == Append(s.cwd, ".yolo.toml")
        gOk == ~Exists(s.fs, global_config_file) \/ TomlOk(s.fs.files[global_config_file])
        c1 == IF Exists(s.fs, global_config_file) /\ gOk
              THEN Update(DEFAULT_CONFIG, TomlDict(s.fs.files[global_config_file]))
              ELSE DEFAULT_CONFIG
        pOk == ~Exists(s.fs, project_config_file) \/ TomlOk(s.fs.files[project_config_file])
        c2 == IF Exists(s.fs, project_config_file) /\ pOk
              THEN Update(c1, TomlDict(s.fs.files[project_config_file]))
              ELSE c1
        s1 == Emit(s, Ev("load_config", project_config_file, "", gOk /\ pOk))
    IN IF ~gOk THEN [st |-> Crash(s1, "TOMLDecodeError"), ret |-> DEFAULT_CONFIG]
       ELSE IF ~pOk THEN [st |-> Crash(s1, "TOMLDecodeError"), ret |-> c1]
       ELSE [st |-> s1, ret |-> c2]

----------------------------------------------------------------------------
(* check_tmux_guard, find_git_root, generate_random_name *)

EnvGet(e, k, default) == IF k \in DOMAIN e THEN e[k] ELSE default

\* os.environ.get('TMUX') is truthy: set and not empty
TmuxActive(e) == EnvGet(e, "TMUX", "") # ""

check_tmux_guard(s) ==
    IF TmuxActive(s.environ)
    THEN Exit(s, "Error: Already in tmux session. Nested tmux not supported.")
    ELSE s

RECURSIVE find_git_root_below_root(_, _)
\* find_git_root without the test of the filesystem root after the loop
find_git_root_below_root(f, current) ==
    IF current # Parent(current)
    THEN IF Exists(f, Append(current, ".git"))
         THEN Some(current)
         ELSE find_git_root_below_root(f, Parent(current))
    ELSE None

RECURSIVE find_git_root_from(_, _)
find_git_root_from(f, current) ==
    IF current # Parent(current)
    THEN IF Exists(f, Append(current, ".git"))
         THEN Some(current)
         ELSE find_git_root_from(f, Parent(current))
    ELSE IF Exists(f, Append(current, ".git")) THEN Some(current) ELSE None

find_git_root(s) == find_git_root_from(s.fs, s.cwd)

ADJECTIVES == <<"brave", "swift", "calm", "bold", "keen",
                "wild", "warm", "cool", "fair", "wise">>
NOUNS == <<"panda", "falcon", "river", "mountain", "oak",
           "wolf", "hawk", "cedar", "fox", "bear">>

\* random.choice twice; o.adj and o.noun are the indices drawn
generate_random_name(o) == ADJECTIVES[o.adj] \o "-" \o NOUNS[o.noun]

----------------------------------------------------------------------------
(* scaffold_devcontainer and sync_devcontainer *)

DevcontainerDir(target_dir) == Append(target_dir, ".devcontainer")
DevcontainerJson(target_dir) == DevcontainerDir(target_dir) \o <<"devcontainer.json">>
Dockerfile(target_dir) == DevcontainerDir(target_dir) \o <<"Dockerfile">>

WriteTemplates(f, project_name, target_dir, config) ==
    LET json_content == Replace(DEVCONTAINER_JSON_TEMPLATE, "PROJECT_NAME", project_name)
        dockerfile_content == Replace(DOCKERFILE_TEMPLATE, "BASE_IMAGE", config["base_image"])
    IN write_text(write_text(f, DevcontainerJson(target_dir), json_content),
                  Dockerfile(target_dir), dockerfile_content)

\* scaffold_devcontainer without the test of devcontainer_dir.exists()
scaffold_unconditionally(s, project_name, target_dir, config) ==
    [st |-> [Emit(s, Ev("scaffold", DevcontainerDir(target_dir), project_name, TRUE))
               EXCEPT !.fs = WriteTemplates(mkdir_parents(s.fs, DevcontainerDir(target_dir)),
                                            project_name, target_dir, config)],
     ret |-> TRUE]

scaffold_devcontainer(s, project_name, target_dir, config) ==
    LET devcontainer_dir == DevcontainerDir(target_dir) IN
    IF Exists(s.fs, devcontainer_dir)
    THEN [st |-> Emit(s, Ev("warning", devcontainer_dir, "Using existing .devcontainer/", TRUE)),
          ret |-> FALSE]
    ELSE [st |-> [Emit(s, Ev("scaffold", devcontainer_dir, project_name, TRUE))
                    EXCEPT !.fs = WriteTemplates(mkdir_parents(s.fs, devcontainer_dir),
                                                 project_name, target_dir, config)],
          ret |-> TRUE]

\* sync_devcontainer that leaves an existing devcontainer.json alone
sync_keeps_manifest(s, project_name, target_dir, config) ==
    LET written == WriteTemplates(mkdir_parents(s.fs, DevcontainerDir(target_dir)),
                                  project_name, target_dir, config)
    IN [Emit(s, Ev("sync", DevcontainerDir(target_dir), project_name, TRUE))
          EXCEPT !.fs = IF DevcontainerJson(target_dir) \in DOMAIN s.fs.files
                        THEN [written EXCEPT !.files[DevcontainerJson(target_dir)] =
                                                 s.fs.files[DevcontainerJson(target_dir)]]
                        ELSE written]

sync_devcontainer(s, project_name, target_dir, config) ==
    LET devcontainer_dir == DevcontainerDir(target_dir) IN
    [Emit(s, Ev("sync", devcontainer_dir, project_name, TRUE))
       EXCEPT !.fs = WriteTemplates(mkdir_parents(s.fs, devcontainer_dir),
                                    project_name, target_dir, config)]

----------------------------------------------------------------------------
(* get_secrets *)

SecretKeys == <<"ANTHROPIC_API_KEY", "OPENAI_API_KEY">>

PassPath(config, key) ==
    IF key = "ANTHROPIC_API_KEY" THEN config["pass_path_anthropic"] ELSE config["pass_path_openai"]

\* get_secrets that gives up on the store as soon as one query fails
secrets_all_or_nothing(s, config, o) ==
    LET fromPass == IF o.pass_available /\ o.pass_ok = {"ANTHROPIC_API_KEY", "OPENAI_API_KEY"}
                    THEN o.pass_ok ELSE {}
    IN [st |-> s,
        ret |-> [ k \in {"ANTHROPIC_API_KEY", "OPENAI_API_KEY"} |->
                    IF k \in fromPass THEN "pass:" \o PassPath(config, k)
                    ELSE EnvGet(s.environ, k, "") ]]

\* o.pass_available: shutil.which('pass'); o.pass_ok: the keys whose "pass show"
\* returns 0 (the others fail or time out)
get_secrets(s, config, o) ==
    LET fromPass == IF o.pass_available THEN o.pass_ok ELSE {}
        secrets == [ k \in {"ANTHROPIC_API_KEY", "OPENAI_API_KEY"} |->
                       IF k \in fromPass
                       THEN "pass:" \o PassPath(config, k)
                       ELSE EnvGet(s.environ, k, "") ]
        calls == IF o.pass_available
                 THEN [ i \in 1..2 |-> Ev("pass show", <<>>, PassPath(config, SecretKeys[i]),
                                          SecretKeys[i] \in o.pass_ok) ]
                 ELSE <<>>
    IN [st |-> [s EXCEPT !.log = s.log \o calls], ret |-> secrets]

\* secrets = get_secrets(config); os.environ.update(secrets)
load_secrets(s, config, o) ==
    LET r == get_secrets(s, config, o) IN [r.st EXCEPT !.environ = Update(r.st.environ, r.ret)]

----------------------------------------------------------------------------
(* get_container_name, get_worktree_path *)

\* str.lower on the strings of the universe
Lower(name) ==
    CASE name = "App" -> "app"
      [] name = "Y" -> "y"
      [] OTHER -> name

\* get_container_name without the .lower()
container_name_keeps_case(project_path, worktree_name) ==
    LET project_name == PathName(PurePath(rstrip(project_path, "/"))) IN
    IF Truthy(worktree_name) THEN project_name \o "-" \o worktree_name[1] ELSE project_name

get_container_name(project_path, worktree_name) ==
    LET project_name == Lower(PathName(PurePath(rstrip(project_path, "/")))) IN
    IF Truthy(worktree_name) THEN project_name \o "-" \o worktree_name[1] ELSE project_name

get_worktree_path(project_path, worktree_name) ==
    LET path == PurePath(rstrip(project_path, "/"))
        project_name == PathName(path)
        worktrees_dir == Append(Parent(path), project_name \o "-worktrees")
    IN worktrees_dir \o PathParts(worktree_name)

----------------------------------------------------------------------------
(* The container runtime and the devcontainer CLI *)

\* a lookup that takes docker for installed
runtime_assumed(o) == Some("docker")

\* o.which: the runtimes shutil.which finds
get_container_runtime(o) ==
    IF "docker" \in o.which THEN Some("docker")
    ELSE IF "podman" \in o.which THEN Some("podman")
    ELSE None

Failing(o, op) == op \in o.failing

\* devcontainer exec ... true
IsRunningNow(s, workspace_dir, o) ==
    /\ ~Failing(o, "exec")
    /\ \E i \in 1..Len(s.containers) :
          s.containers[i].folder = workspace_dir /\ s.containers[i].state = "running"

is_container_running(s, workspace_dir, o) ==
    [st |-> Emit(s, Ev("devcontainer exec true", workspace_dir, "", IsRunningNow(s, workspace_dir, o))),
     ret |-> IsRunningNow(s, workspace_dir, o)]

\* the containers after a successful "devcontainer up"
UpContainers(cs, workspace_dir, remove_existing) ==
    IF remove_existing \/ ~\E i \in 1..Len(cs) : cs[i].folder = workspace_dir
    THEN Append(SelectSeq(cs, LAMBDA c : c.folder # workspace_dir),
                [name |-> "dc-" \o PathName(workspace_dir), folder |-> workspace_dir,
                 state |-> "running"])
    ELSE [ i \in 1..Len(cs) |->
             IF cs[i].folder = workspace_dir THEN [cs[i] EXCEPT !.state = "running"] ELSE cs[i] ]

devcontainer_up(s, workspace_dir, remove_existing, o) ==
    LET ok == ~Failing(o, "up") /\ Exists(s.fs, DevcontainerJson(workspace_dir))
        s1 == Emit(s, Ev("devcontainer up", workspace_dir,
                         IF remove_existing THEN "--remove-existing-container" ELSE "", ok))
    IN [st |-> IF ok THEN [s1 EXCEPT !.containers = UpContainers(s.containers, workspace_dir, remove_existing)]
               ELSE s1,
        ret |-> ok]

devcontainer_exec_tmux(s, workspace_dir) ==
    Emit(s, Ev("devcontainer exec tmux", workspace_dir, "", TRUE))

list_all_devcontainers(s, o) ==
    IF get_container_runtime(o) = None THEN [st |-> s, ret |-> <<>>]
    ELSE LET ok == ~Failing(o, "ps")
             s1 == Emit(s, Ev(get_container_runtime(o)[1] \o " ps -a", <<>>,
                              "label=devcontainer.local_folder", ok))
         IN [st |-> s1, ret |-> IF ok THEN s.containers ELSE <<>>]

get_container_for_workspace(s, workspace_dir, o) ==
    IF get_container_runtime(o) = None THEN [st |-> s, ret |-> None]
    ELSE LET ok == ~Failing(o, "ps")
             found == SelectSeq(s.containers, LAMBDA c : c.folder = workspace_dir)
             s1 == Emit(s, Ev(get_container_runtime(o)[1] \o " ps -a", workspace_dir,
                              "label=devcontainer.local_folder=", ok))
         IN [st |-> s1,
             ret |-> IF ~ok \/ found = <<>> THEN None ELSE Some(found[1].name)]

StopContainers(cs, name) ==
    [ i \in 1..Len(cs) |-> IF cs[i].name = name THEN [cs[i] EXCEPT !.state = "exited"] ELSE cs[i] ]

stop_container(s, workspace_dir, o) ==
    IF get_container_runtime(o) = None
    THEN [st |-> Emit(s, Ev("stderr", workspace_dir, "Error: No container runtime found", FALSE)),
          ret |-> FALSE]
    ELSE LET r == get_container_for_workspace(s, workspace_dir, o) IN
         IF r.ret = None
         THEN [st |-> Emit(r.st, Ev("stderr", workspace_dir, "No container found", FALSE)),
               ret |-> FALSE]
         ELSE LET ok == ~Failing(o, "stop")
                  s1 == Emit(r.st, Ev(get_container_runtime(o)[1] \o " stop", workspace_dir, r.ret[1], ok))
              IN [st |-> IF ok THEN [s1 EXCEPT !.containers = StopContainers(s1.containers, r.ret[1])]
                         ELSE s1,
                  ret |-> ok]

remove_container(s, container_name, o) ==
    IF get_container_runtime(o) = None THEN [st |-> s, ret |-> FALSE]
    ELSE LET ok == ~Failing(o, "rm")
             s1 == Emit(s, Ev(get_container_runtime(o)[1] \o " rm", <<>>, container_name, ok))
         IN [st |-> IF ok
                    THEN [s1 EXCEPT !.containers = SelectSeq(s1.containers, LAMBDA c : c.name # container_name)]
                    ELSE s1,
             ret |-> ok]

----------------------------------------------------------------------------
(* git: the repository and its worktree listing *)

NoRepo == [branches |-> {}, tree |-> <<>>, head |-> <<>>, worktrees |-> <<>>]

CommitId == <<"4", "f", "2", "a", "9", "c", "1", "d", "7", "e">>

BranchRef(name) == <<"refs", "heads", name>>

Line(k, v) == [k |-> k, v |-> v]

RECURSIVE Porcelain(_)
\* the lines of "git worktree list --porcelain": a block and a blank line per worktree
Porcelain(wts) ==
    IF wts = <<>> THEN <<>>
    ELSE LET w == Head(wts) IN
         <<Line("worktree", w.path), Line("HEAD", w.head),
           IF w.ref = <<>> THEN Line("detached", <<>>) ELSE Line("branch", w.ref),
           Line("", <<>>)>> \o Porcelain(Tail(wts))

RECURSIVE StripLines(_)
\* str.strip: the leading and the trailing blank lines go
StripLines(lines) ==
    IF lines # <<>> /\ lines[Len(lines)].k = ""
    THEN StripLines(SubSeq(lines, 1, Len(lines) - 1))
    ELSE IF lines # <<>> /\ lines[1].k = ""
    THEN StripLines(Tail(lines))
    ELSE lines

RECURSIVE RemoveRefsHeads(_)
\* .replace('refs/heads/', '') on the components of a ref
RemoveRefsHeads(ref) ==
    IF Len(ref) >= 3 /\ ref[1] = "refs" /\ ref[2] = "heads"
    THEN RemoveRefsHeads(SubSeq(ref, 3, Len(ref)))
    ELSE IF ref = <<>> THEN <<>>
    ELSE <<Head(ref)>> \o RemoveRefsHeads(Tail(ref))

RECURSIVE JoinSlash(_)
JoinSlash(parts) ==
    IF parts = <<>> THEN ""
    ELSE IF Len(parts) = 1 THEN parts[1]
    ELSE parts[1] \o "/" \o JoinSlash(Tail(parts))

DictGet(d, k) == IF k \in DOMAIN d THEN d[k] ELSE <<>>

WorktreeTuple(current_worktree) ==
    [path |-> DictGet(current_worktree, "worktree"),
     commit |-> SubSeq(DictGet(current_worktree, "HEAD"), 1,
                       IF Len(DictGet(current_worktree, "HEAD")) < 7
                       THEN Len(DictGet(current_worktree, "HEAD")) ELSE 7),
     branch |-> JoinSlash(RemoveRefsHeads(DictGet(current_worktree, "branch")))]

RECURSIVE ParseWorktrees(_, _, _, _)
ParseWorktrees(lines, i, current_worktree, worktrees) ==
    IF i > Len(lines)
    THEN IF DOMAIN current_worktree # {}
         THEN Append(worktrees, WorktreeTuple(current_worktree))
         ELSE worktrees
    ELSE IF lines[i].k = ""
    THEN IF DOMAIN current_worktree # {}
         THEN ParseWorktrees(lines, i + 1, <<>>, Append(worktrees, WorktreeTuple(current_worktree)))
         ELSE ParseWorktrees(lines, i + 1, current_worktree, worktrees)
    ELSE IF lines[i].k \in {"worktree", "HEAD", "branch"}
    THEN ParseWorktrees(lines, i + 1, (lines[i].k :> lines[i].v) @@ current_worktree, worktrees)
    ELSE ParseWorktrees(lines, i + 1, current_worktree, worktrees)

\* the command fails outside a repository
GitListOk(s, o) == ~Failing(o, "worktree list") /\ s.repo.worktrees # <<>>

\* result.stdout: what git prints for the repository, or the text the
\* outcome o dictates
GitStdout(s, o) == IF "stdout" \in DOMAIN o THEN o.stdout ELSE Porcelain(s.repo.worktrees)

list_worktrees(s, git_root, o) ==
    [st |-> Emit(s, Ev("git worktree list", git_root, "--porcelain", GitListOk(s, o))),
     ret |-> IF GitListOk(s, o)
             THEN ParseWorktrees(StripLines(GitStdout(s, o)), 1, <<>>, <<>>)
             ELSE <<>>]

Workspace(path, type) == [path |-> path, type |-> type]

WorktreesDir(git_root) == Append(Parent(git_root), PathName(git_root) \o "-worktrees")

\* find_project_workspaces without the test of worktrees_dir.exists()
workspaces_without_dir_test(s, git_root, o) ==
    LET r == list_worktrees(s, git_root, o)
        others == SelectSeq(r.ret, LAMBDA w : w.path # git_root)
    IN [st |-> r.st,
        ret |-> <<Workspace(git_root, "main")>> \o [ i \in 1..Len(others) |->
                   Workspace(others[i].path,
                             IF others[i].branch # "" THEN others[i].branch
                             ELSE PathName(others[i].path)) ]]

find_project_workspaces(s, git_root, o) ==
    LET main == <<Workspace(git_root, "main")>> IN
    IF Exists(s.fs, WorktreesDir(git_root))
    THEN LET r == list_worktrees(s, git_root, o)
             others == SelectSeq(r.ret, LAMBDA w : w.path # git_root)
         IN [st |-> r.st,
             ret |-> main \o [ i \in 1..Len(others) |->
                        Workspace(others[i].path,
                                  IF others[i].branch # "" THEN others[i].branch
                                  ELSE PathName(others[i].path)) ]]
    ELSE [st |-> s, ret |-> main]

find_stopped_containers_for_project(s, git_root, o) ==
    IF get_container_runtime(o) = None THEN [st |-> s, ret |-> <<>>]
    ELSE LET project_name == PathName(git_root)
             r == list_all_devcontainers(s, o)
         IN [st |-> r.st,
             ret |-> SelectSeq(r.ret, LAMBDA c :
                        /\ c.state # "running"
                        /\ \/ c.folder = git_root
                           \/ PathName(Parent(c.folder)) = project_name \o "-worktrees")]

\* find_stale_worktrees without the test of wt_path.exists()
stale_without_exists_test(s, git_root, o) ==
    LET r == list_worktrees(s, git_root, o)
        others == SelectSeq(r.ret, LAMBDA w : w.path # git_root)
    IN [st |-> r.st,
        ret |-> [ i \in 1..Len(others) |-> [path |-> others[i].path, branch |-> others[i].branch] ]]

find_stale_worktrees(s, git_root, o) ==
    LET r == list_worktrees(s, git_root, o)
        stale == SelectSeq(r.ret, LAMBDA w : w.path # git_root /\ ~Exists(s.fs, w.path))
    IN [st |-> r.st,
        ret |-> [ i \in 1..Len(stale) |-> [path |-> stale[i].path, branch |-> stale[i].branch] ]]

RemoveTree(f, p) ==
    [dirs |-> { q \in f.dirs : ~IsPrefix(p, q) },
     files |-> [ q \in { x \in DOMAIN f.files : ~IsPrefix(p, x) } |-> f.files[q] ]]

\* git worktree remove --force
remove_worktree(s, git_root, worktree_path, o) ==
    LET ok == ~Failing(o, "worktree remove")
        s1 == Emit(s, Ev("git worktree remove", worktree_path, "--force", ok))
    IN [st |-> IF ok
               THEN [s1 EXCEPT !.repo.worktrees = SelectSeq(s.repo.worktrees, LAMBDA w : w.path # worktree_path),
                               !.fs = RemoveTree(s.fs, worktree_path)]
               ELSE s1,
        ret |-> ok]

\* git worktree add -b NAME PATH: refused when the branch exists or the path is
\* still registered; checks the committed tree out into PATH
GitWorktreeAddOk(s, worktree_name, worktree_path, o) ==
    /\ ~Failing(o, "worktree add")
    /\ s.repo.worktrees # <<>>
    /\ worktree_name \notin s.repo.branches
    /\ \A i \in 1..Len(s.repo.worktrees) : s.repo.worktrees[i].path # worktree_path

Checkout(f, tree, worktree_path) ==
    LET placed == [ q \in { worktree_path \o rel : rel \in DOMAIN tree } |->
                      tree[SubSeq(q, Len(worktree_path) + 1, Len(q))] ]
        f1 == [dirs |-> f.dirs \cup {worktree_path}
                          \cup UNION { Ancestors(Parent(q)) : q \in DOMAIN placed },
               files |-> placed @@ f.files]
    IN write_text(f1, Append(worktree_path, ".git"), <<"gitdir:">>)

git_worktree_add(s, git_root, worktree_name, worktree_path, o) ==
    LET ok == GitWorktreeAddOk(s, worktree_name, worktree_path, o)
        s1 == Emit(s, Ev("git worktree add", worktree_path, worktree_name, ok))
    IN [st |-> IF ok
               THEN [s1 EXCEPT !.fs = Checkout(s.fs, s.repo.tree, worktree_path),
                               !.repo.branches = s.repo.branches \cup {worktree_name},
                               !.repo.worktrees = Append(s.repo.worktrees,
                                    [path |-> worktree_path, head |-> s.repo.head,
                                     ref |-> BranchRef(worktree_name)])]
               ELSE s1,
        ret |-> ok]

git_init(s, project_path, o) ==
    LET ok == ~Failing(o, "init")
        s1 == Emit(s, Ev("git init", project_path, "", ok))
    IN [st |-> IF ok
               THEN [s1 EXCEPT !.fs = mkdir(s.fs, Append(project_path, ".git")),
                               !.repo = [NoRepo EXCEPT !.worktrees =
                                    <<[path |-> project_path, head |-> <<>>, ref |-> BranchRef("master")]>>]]
               ELSE s1,
        ret |-> ok]

\* git add .devcontainer; git commit -m ...: the return codes are not looked at
git_add_commit(s, project_path, o) ==
    LET addOk == ~Failing(o, "add") /\ s.repo.worktrees # <<>>
        commitOk == addOk /\ ~Failing(o, "commit")
        under == { q \in DOMAIN s.fs.files : IsPrefix(DevcontainerDir(project_path), q) }
        tree == [ rel \in { SubSeq(q, Len(project_path) + 1, Len(q)) : q \in under } |->
                    s.fs.files[project_path \o rel] ]
        s1 == Emit(Emit(s, Ev("git add", project_path, ".devcontainer", addOk)),
                   Ev("git commit", project_path, "Initial commit with devcontainer setup", commitOk))
    IN IF commitOk
       THEN [s1 EXCEPT !.repo.tree = tree, !.repo.head = CommitId,
                       !.repo.branches = {"master"},
                       !.repo.worktrees = <<[path |-> project_path, head |-> CommitId,
                                             ref |-> BranchRef("master")]>>]
       ELSE s1

----------------------------------------------------------------------------
(* add_worktree_git_mount: json.loads, append the mount, json.dumps *)

Field(key, list, val) == [key |-> key, list |-> list, val |-> val]

FirstClose(t) ==
    IF \E j \in 3..Len(t) : t[j] = "]"
    THEN CHOOSE j \in 3..Len(t) : t[j] = "]" /\ \A k \in 3..(j - 1) : t[k] # "]"
    ELSE 0

RECURSIVE ParseFields(_)
\* the members of a JSON object: a key and a scalar, or a key and a [ list ]
ParseFields(t) ==
    IF t = <<>> THEN [ok |-> TRUE, fields |-> <<>>]
    ELSE IF Len(t) < 2 THEN [ok |-> FALSE, fields |-> <<>>]
    ELSE IF t[2] = "["
    THEN IF FirstClose(t) = 0 THEN [ok |-> FALSE, fields |-> <<>>]
         ELSE LET rest == ParseFields(SubSeq(t, FirstClose(t) + 1, Len(t))) IN
              [ok |-> rest.ok,
               fields |-> <<Field(t[1], TRUE, SubSeq(t, 3, FirstClose(t) - 1))>> \o rest.fields]
    ELSE LET rest == ParseFields(SubSeq(t, 3, Len(t))) IN
         [ok |-> rest.ok, fields |-> <<Field(t[1], FALSE, <<t[2]>>)>> \o rest.fields]

json_loads(text) ==
    IF Len(text) >= 2 /\ text[1] = "{" /\ text[Len(text)] = "}"
    THEN ParseFields(SubSeq(text, 2, Len(text) - 1))
    ELSE [ok |-> FALSE, fields |-> <<>>]

RECURSIVE DumpFields(_)
DumpFields(fields) ==
    IF fields = <<>> THEN <<>>
    ELSE LET f == Head(fields) IN
         (IF f.list THEN <<f.key, "[">> \o f.val \o <<"]">> ELSE <<f.key>> \o f.val)
           \o DumpFields(Tail(fields))

json_dumps(fields) == <<"{">> \o DumpFields(fields) \o <<"}">>

\* str(Path)
PathStr(p) == "/" \o JoinSlash(p)

HasKey(fields, key) == \E i \in 1..Len(fields) : fields[i].key = key

\* add_worktree_git_mount that puts the new mount in front of the list
mount_in_front(s, devcontainer_json_path, main_git_dir) ==
    IF devcontainer_json_path \notin DOMAIN s.fs.files
    THEN Crash(s, "FileNotFoundError")
    ELSE LET parsed == json_loads(s.fs.files[devcontainer_json_path]) IN
         IF ~parsed.ok THEN Crash(s, "JSONDecodeError")
         ELSE LET content == IF HasKey(parsed.fields, "mounts") THEN parsed.fields
                             ELSE Append(parsed.fields, Field("mounts", TRUE, <<>>))
                  git_mount == "source=" \o PathStr(main_git_dir) \o ",target="
                                 \o PathStr(main_git_dir) \o ",type=bind"
                  inserted == [ i \in 1..Len(content) |->
                                  IF content[i].key = "mounts"
                                  THEN [content[i] EXCEPT !.val = <<git_mount>> \o content[i].val]
                                  ELSE content[i] ]
              IN IF \E i \in 1..Len(content) : content[i].key = "mounts" /\ ~content[i].list
                 THEN Crash(s, "AttributeError")
                 ELSE [Emit(s, Ev("add mount", devcontainer_json_path, git_mount, TRUE))
                         EXCEPT !.fs = write_text(s.fs, devcontainer_json_path, json_dumps(inserted))]

add_worktree_git_mount(s, devcontainer_json_path, main_git_dir) ==
    IF devcontainer_json_path \notin DOMAIN s.fs.files
    THEN Crash(s, "FileNotFoundError")
    ELSE LET parsed == json_loads(s.fs.files[devcontainer_json_path]) IN
         IF ~parsed.ok THEN Crash(s, "JSONDecodeError")
         ELSE LET content == IF HasKey(parsed.fields, "mounts") THEN parsed.fields
                             ELSE Append(parsed.fields, Field("mounts", TRUE, <<>>))
                  git_mount == "source=" \o PathStr(main_git_dir) \o ",target="
                                 \o PathStr(main_git_dir) \o ",type=bind"
                  appended == [ i \in 1..Len(content) |->
                                  IF content[i].key = "mounts"
                                  THEN [content[i] EXCEPT !.val = Append(content[i].val, git_mount)]
                                  ELSE content[i] ]
              IN IF \E i \in 1..Len(content) : content[i].key = "mounts" /\ ~content[i].list
                 THEN Crash(s, "AttributeError")
                 ELSE [Emit(s, Ev("add mount", devcontainer_json_path, git_mount, TRUE))
                         EXCEPT !.fs = write_text(s.fs, devcontainer_json_path, json_dumps(appended))]

----------------------------------------------------------------------------
(* The mode orchestrators *)

Enter(s, mode) == Emit(s, Ev("orchestrator", <<>>, mode, TRUE))

Return(s) == IF Running(s) THEN [s EXCEPT !.status = "ok"] ELSE s

chdir(s, p) == [s EXCEPT !.cwd = p]

run_sync_mode(s0, a, o) ==
    LET s == Enter(s0, "sync")
        git_root == find_git_root(s)
    IN IF git_root = None THEN Exit(s, "Error: Not in a git repository.")
       ELSE LET s1 == chdir(s, git_root[1])
                c == load_config(s1)
            IN IF ~Running(c.st) THEN c.st
               ELSE sync_devcontainer(c.st, PathName(git_root[1]), c.st.cwd, c.ret)

\* start unless running (or --new), then attach: the tail of default and tree mode
\* the start of the container without the test of is_container_running
StartAlways(s, workspace_dir, a, o) ==
    LET u == devcontainer_up(s, workspace_dir, a.new, o) IN
    IF ~u.ret THEN Exit(u.st, "Error: Failed to start devcontainer")
    ELSE devcontainer_exec_tmux(u.st, workspace_dir)

StartAndAttach(s, workspace_dir, a, o) ==
    LET r == IF a.new THEN [st |-> s, ret |-> FALSE]
             ELSE is_container_running(s, workspace_dir, o)
    IN IF a.new \/ ~r.ret
       THEN LET u == devcontainer_up(r.st, workspace_dir, a.new, o) IN
            IF ~u.ret THEN Exit(u.st, "Error: Failed to start devcontainer")
            ELSE devcontainer_exec_tmux(u.st, workspace_dir)
       ELSE devcontainer_exec_tmux(r.st, workspace_dir)

\* default mode that regenerates .devcontainer as sync mode does
run_default_syncing(s0, a, o) ==
    LET s == Enter(s0, "default")
        git_root == find_git_root(s)
    IN IF git_root = None THEN Exit(s, "Error: Not in a git repository.")
       ELSE LET s1 == chdir(s, git_root[1])
                c == load_config(s1)
            IN IF ~Running(c.st) THEN c.st
               ELSE StartAndAttach(load_secrets(sync_devcontainer(c.st, PathName(git_root[1]),
                                                                  c.st.cwd, c.ret),
                                                c.ret, o),
                                   git_root[1], a, o)

run_default_mode(s0, a, o) ==
    LET s == Enter(s0, "default")
        git_root == find_git_root(s)
    IN IF git_root = None THEN Exit(s, "Error: Not in a git repository.")
       ELSE LET s1 == chdir(s, git_root[1])
                c == load_config(s1)
            IN IF ~Running(c.st) THEN c.st
               ELSE LET sc == scaffold_devcontainer(c.st, PathName(git_root[1]), c.st.cwd, c.ret)
                        s2 == load_secrets(sc.st, c.ret, o)
                    IN StartAndAttach(s2, git_root[1], a, o)

\* attach mode that starts the container when it is not running
attach_or_start(s0, a, o) ==
    LET s == Enter(s0, "attach")
        git_root == find_git_root(s)
    IN IF git_root = None THEN Exit(s, "Error: Not in a git repository.")
       ELSE StartAndAttach(s, git_root[1], a, o)

run_attach_mode(s0, a, o) ==
    LET s == Enter(s0, "attach")
        git_root == find_git_root(s)
    IN IF git_root = None THEN Exit(s, "Error: Not in a git repository.")
       ELSE LET r == is_container_running(s, git_root[1], o) IN
            IF ~r.ret THEN Exit(r.st, "Error: Container is not running. Use yolo to start it.")
            ELSE devcontainer_exec_tmux(r.st, git_root[1])

\* validate_create_mode without the test of the target directory
validate_create_repo_only(s, name) ==
    IF find_git_root(s) # None
    THEN Exit(s, "Error: Already in a git repository. Use --tree for worktrees.")
    ELSE s

validate_create_mode(s, name) ==
    IF find_git_root(s) # None
    THEN Exit(s, "Error: Already in a git repository. Use --tree for worktrees.")
    ELSE IF Exists(s.fs, Append(s.cwd, name))
    THEN Exit(s, "Error: Directory already exists")
    ELSE s

run_create_mode(s0, a, o) ==
    LET s == validate_create_mode(Enter(s0, "create"), a.create[1]) IN
    IF ~Running(s) THEN s
    ELSE LET project_name == a.create[1]
             project_path == Append(s.cwd, project_name)
             c == load_config(s)
         IN IF ~Running(c.st) THEN c.st
            ELSE LET s1 == [Emit(c.st, Ev("mkdir", project_path, "", TRUE))
                              EXCEPT !.fs = mkdir(c.st.fs, project_path)]
                     g == git_init(s1, project_path, o)
                 IN IF ~g.ret THEN Exit(g.st, "Error: Failed to initialize git repository")
                    ELSE LET sc == scaffold_devcontainer(g.st, project_name, project_path, c.ret)
                             s2 == git_add_commit(sc.st, project_path, o)
                             s3 == chdir(s2, project_path)
                             s4 == load_secrets(s3, c.ret, o)
                             u == devcontainer_up(s4, project_path, TRUE, o)
                         IN IF ~u.ret THEN Exit(u.st, "Error: Failed to start devcontainer")
                            ELSE devcontainer_exec_tmux(u.st, project_path)


Say(s, text, path) == Emit(s, Ev("print", path, text, TRUE))

run_list_global_mode(s, o) ==
    IF get_container_runtime(o) = None
    THEN Exit(s, "Error: No container runtime found (docker or podman required)")
    ELSE LET r == list_all_devcontainers(s, o)
             running_containers == SelectSeq(r.ret, LAMBDA c : c.state = "running")
             stopped_containers == SelectSeq(r.ret, LAMBDA c : c.state # "running")
         IN [r.st EXCEPT !.log = r.st.log
                \o [ i \in 1..Len(running_containers) |->
                       Ev("print running", running_containers[i].folder, running_containers[i].name, TRUE) ]
                \o [ i \in 1..Len(stopped_containers) |->
                       Ev("print stopped", stopped_containers[i].folder, stopped_containers[i].name, TRUE) ]]

RECURSIVE ListContainersEvery(_, _, _)
\* the status loop of run_list_mode without the test of devcontainer_dir.exists()
ListContainersEvery(s, workspaces, o) ==
    IF workspaces = <<>> THEN s
    ELSE LET r == is_container_running(s, Head(workspaces).path, o) IN
         ListContainersEvery(Emit(r.st, Ev("print status", Head(workspaces).path,
                                           IF r.ret THEN "running" ELSE "stopped", TRUE)),
                             Tail(workspaces), o)

RECURSIVE ListContainers(_, _, _)
\* the status line of every workspace that has a .devcontainer
ListContainers(s, workspaces, o) ==
    IF workspaces = <<>> THEN s
    ELSE LET ws == Head(workspaces) IN
         IF Exists(s.fs, DevcontainerDir(ws.path))
         THEN LET r == is_container_running(s, ws.path, o) IN
              ListContainers(Emit(r.st, Ev("print status", ws.path,
                                           IF r.ret THEN "running" ELSE "stopped", TRUE)),
                             Tail(workspaces), o)
         ELSE ListContainers(s, Tail(workspaces), o)

run_list_mode(s0, a, o) ==
    LET s == Enter(s0, "list") IN
    IF a.all THEN run_list_global_mode(s, o)
    ELSE LET git_root == find_git_root(s) IN
         IF git_root = None
         THEN Exit(s, "Error: Not in a git repository. Use --list --all to see all containers.")
         ELSE LET w == find_project_workspaces(s, git_root[1], o)
                  s1 == ListContainers(w.st, w.ret, o)
                  l == list_worktrees(s1, git_root[1], o)
                  shown == IF Len(l.ret) > 1
                           THEN SelectSeq(l.ret, LAMBDA x : x.path # git_root[1])
                           ELSE <<>>
              IN [l.st EXCEPT !.log = l.st.log
                    \o [ i \in 1..Len(shown) |-> Ev("print worktree", shown[i].path, shown[i].branch, TRUE) ]]

RECURSIVE StopAll(_, _, _, _)
\* for ws_path, ws_type in worktrees + main
StopAll(s, workspaces, any_stopped, o) ==
    IF workspaces = <<>> THEN [st |-> s, ret |-> any_stopped]
    ELSE LET ws == Head(workspaces)
             s1 == Emit(s, Ev("for workspace", ws.path, ws.type, Exists(s.fs, ws.path)))
         IN IF ~Exists(s.fs, ws.path) THEN StopAll(s1, Tail(workspaces), any_stopped, o)
            ELSE LET r == is_container_running(s1, ws.path, o) IN
                 IF r.ret
                 THEN LET q == stop_container(r.st, ws.path, o) IN
                      StopAll(q.st, Tail(workspaces), any_stopped \/ q.ret, o)
                 ELSE StopAll(r.st, Tail(workspaces), any_stopped, o)

\* worktrees + main: the workspaces of another type, then those of type 'main'
StopOrder(workspaces) ==
    SelectSeq(workspaces, LAMBDA w : w.type # "main")
      \o SelectSeq(workspaces, LAMBDA w : w.type = "main")

run_stop_mode(s0, a, o) ==
    LET s == Enter(s0, "stop")
        git_root == find_git_root(s)
    IN IF git_root = None THEN Exit(s, "Error: Not in a git repository.")
       ELSE IF a.all
       THEN LET w == find_project_workspaces(s, git_root[1], o)
                r == StopAll(w.st, StopOrder(w.ret), FALSE, o)
            IN IF ~r.ret
               THEN Say(r.st, "No running containers found for this project", <<>>)
               ELSE r.st
       ELSE LET q == stop_container(s, git_root[1], o) IN
            IF ~q.ret THEN Exit(q.st, "1") ELSE q.st

RECURSIVE RemoveContainers(_, _, _)
RemoveContainers(s, stopped_containers, o) ==
    IF stopped_containers = <<>> THEN s
    ELSE RemoveContainers(remove_container(s, Head(stopped_containers).name, o).st,
                          Tail(stopped_containers), o)

RECURSIVE RemoveWorktrees(_, _, _, _)
RemoveWorktrees(s, git_root, stale_worktrees, o) ==
    IF stale_worktrees = <<>> THEN s
    ELSE RemoveWorktrees(remove_worktree(s, git_root, Head(stale_worktrees).path, o).st,
                         git_root, Tail(stale_worktrees), o)

\* a prompt that takes anything but "n" for a yes
ConfirmedUnlessNo(response) == Lower(response.text) # "n"

\* response.lower() != 'y' cancels
Confirmed(response) == Lower(response.text) = "y"

run_prune_mode(s0, a, o) ==
    LET s == Enter(s0, "prune")
        git_root == find_git_root(s)
    IN IF git_root = None THEN Exit(s, "Error: Not in a git repository.")
       ELSE LET c == find_stopped_containers_for_project(s, git_root[1], o)
                w == find_stale_worktrees(c.st, git_root[1], o)
                offered == [w.st EXCEPT !.log = w.st.log
                    \o [ i \in 1..Len(c.ret) |-> Ev("offer container", c.ret[i].folder, c.ret[i].name, TRUE) ]
                    \o [ i \in 1..Len(w.ret) |-> Ev("offer worktree", w.ret[i].path, w.ret[i].branch, TRUE) ]]
                asked == Emit(offered, Ev("input", <<o.response.kind>>, o.response.text, TRUE))
            IN IF c.ret = <<>> /\ w.ret = <<>> THEN Say(w.st, "Nothing to prune.", <<>>)
               ELSE IF o.response.kind # "line" THEN asked
               ELSE IF ~Confirmed(o.response) THEN Say(asked, "Cancelled.", <<>>)
               ELSE RemoveWorktrees(RemoveContainers(asked, c.ret, o), git_root[1], w.ret, o)

validate_tree_mode(s) ==
    IF find_git_root(s) = None
    THEN Exit(s, "Error: Not in a git repository. --tree requires an existing repo.")
    ELSE s

\* get_or_create_worktree when the path does not exist yet
create_worktree(s, git_root, worktree_name, worktree_path, config, o) ==
    LET s1 == [s EXCEPT !.fs = mkdir_parents(s.fs, Parent(worktree_path))]
        g == git_worktree_add(s1, git_root, worktree_name, worktree_path, o)
        src_devcontainer == DevcontainerDir(git_root)
        dst_devcontainer == DevcontainerDir(worktree_path)
    IN IF ~g.ret THEN Exit(g.st, "Error: Failed to create git worktree")
       ELSE LET s2 ==
                  IF Exists(g.st.fs, src_devcontainer)
                  THEN IF Exists(g.st.fs, dst_devcontainer)
                       THEN Crash(g.st, "FileExistsError")
                       ELSE [Emit(g.st, Ev("copytree", dst_devcontainer, "", TRUE))
                               EXCEPT !.fs = copytree(g.st.fs, src_devcontainer, dst_devcontainer)]
                  ELSE scaffold_devcontainer(g.st,
                           get_container_name(StrOf(git_root), Some(worktree_name)),
                           worktree_path, config).st
            IN IF ~Running(s2) THEN s2
               ELSE LET s3 == add_worktree_git_mount(s2, DevcontainerJson(worktree_path),
                                                     Append(git_root, ".git"))
                    IN IF ~Running(s3) THEN s3
                       ELSE Say(s3, "Created worktree", worktree_path)

\* get_or_create_worktree that injects the .git mount into a reused worktree too
get_or_create_remounting(s, git_root, worktree_name, worktree_path, config, o) ==
    IF Exists(s.fs, worktree_path)
    THEN add_worktree_git_mount(Say(s, "Using existing worktree", worktree_path),
                                DevcontainerJson(worktree_path), Append(git_root, ".git"))
    ELSE create_worktree(s, git_root, worktree_name, worktree_path, config, o)

get_or_create_worktree(s, git_root, worktree_name, worktree_path, config, o) ==
    IF Exists(s.fs, worktree_path)
    THEN Say(s, "Using existing worktree", worktree_path)
    ELSE create_worktree(s, git_root, worktree_name, worktree_path, config, o)

run_tree_mode(s0, a, o) ==
    LET s == validate_tree_mode(Enter(s0, "tree")) IN
    IF ~Running(s) THEN s
    ELSE LET git_root == find_git_root(s)[1]
             worktree_name == IF a.tree[1] # "" THEN a.tree[1] ELSE generate_random_name(o)
             worktree_path == get_worktree_path(StrOf(git_root), worktree_name)
             c == load_config(s)
         IN IF ~Running(c.st) THEN c.st
            ELSE LET s1 == get_or_create_worktree(c.st, git_root, worktree_name,
                                                  worktree_path, c.ret, o)
                 IN IF ~Running(s1) THEN s1
                    ELSE StartAndAttach(load_secrets(s1, c.ret, o), worktree_path, a, o)

----------------------------------------------------------------------------
(* main: the dispatch *)

\* main with the stop branch tested before the sync branch
DispatchStopFirst(a) ==
    IF a.stop THEN "stop" ELSE IF a.sync THEN "sync" ELSE IF a.list THEN "list"
    ELSE IF a.prune THEN "prune" ELSE IF a.attach THEN "attach"
    ELSE IF Truthy(a.create) THEN "create" ELSE IF a.tree # None THEN "tree" ELSE "default"

\* the if-chain of main(): the first mode whose flag is set
Dispatch(a) ==
    IF a.sync THEN "sync"
    ELSE IF a.list THEN "list"
    ELSE IF a.stop THEN "stop"
    ELSE IF a.prune THEN "prune"
    ELSE IF a.attach THEN "attach"
    ELSE IF Truthy(a.create) THEN "create"
    ELSE IF a.tree # None THEN "tree"
    ELSE "default"

\* main calling check_tmux_guard before every mode
GuardedAlways(mode) == TRUE

\* the modes main() reaches only after check_tmux_guard()
Guarded(mode) == mode \in {"attach", "create", "tree", "default"}

\* main() up to the call of the orchestrator that Dispatch selects
main(s, a) == IF Guarded(Dispatch(a)) THEN check_tmux_guard(s) ELSE s

----------------------------------------------------------------------------
(* What an invocation draws: command line, environment, cwd, outcomes *)

ModeFlagCount(a) ==
    Cardinality({ f \in {"sync", "list", "stop", "prune", "attach"} : a[f] })
      + (IF a.create # None THEN 1 ELSE 0) + (IF a.tree # None THEN 1 ELSE 0)

\* parse_args: every combination of the flags
Argv ==
    [tree : {None, Some("")} \cup { Some(n) : n \in TreeNames },
     create : {None, Some("")} \cup { Some(n) : n \in CreateNames },
     new : BOOLEAN, sync : BOOLEAN, list : BOOLEAN, all : BOOLEAN,
     stop : BOOLEAN, prune : BOOLEAN, attach : BOOLEAN]

NoArgs ==
    [tree |-> None, create |-> None, new |-> FALSE, sync |-> FALSE, list |-> FALSE,
     all |-> FALSE, stop |-> FALSE, prune |-> FALSE, attach |-> FALSE]

\* the tokens argparse takes for an option, not for the value of one
OptionLike ==
    {"--tree", "--create", "--new", "--sync", "--list", "--all", "-a", "--stop", "--prune",
     "--attach", "--detach", "-d", "--from", "--verbose", "-v"}

\* the destination of a store_true option of the parser ("" for any other token)
StoreTrue(tok) ==
    CASE tok \in {"--new", "--sync", "--list", "--stop", "--prune", "--attach"} ->
            (CASE tok = "--new" -> "new" [] tok = "--sync" -> "sync" [] tok = "--list" -> "list"
               [] tok = "--stop" -> "stop" [] tok = "--prune" -> "prune" [] OTHER -> "attach")
      [] tok \in {"--all", "-a"} -> "all"
      [] OTHER -> ""

RECURSIVE ParseTokens(_, _)
\* parser.parse_args: --tree takes the next token when it is not an option,
\* --create needs one; a token the parser does not know ends in parser.error
ParseTokens(argv, ns) ==
    IF argv = <<>> THEN [ok |-> TRUE, ns |-> ns]
    ELSE LET tok == Head(argv)
             hasValue == Len(argv) >= 2 /\ argv[2] \notin OptionLike
         IN IF StoreTrue(tok) # ""
            THEN ParseTokens(Tail(argv), [ns EXCEPT ![StoreTrue(tok)] = TRUE])
            ELSE IF tok = "--tree"
            THEN IF hasValue
                 THEN ParseTokens(SubSeq(argv, 3, Len(argv)), [ns EXCEPT !.tree = Some(argv[2])])
                 ELSE ParseTokens(Tail(argv), [ns EXCEPT !.tree = Some("")])
            ELSE IF tok = "--create" /\ hasValue
            THEN ParseTokens(SubSeq(argv, 3, Len(argv)), [ns EXCEPT !.create = Some(argv[2])])
            ELSE [ok |-> FALSE, ns |-> ns]

parse_args(argv) == ParseTokens(argv, NoArgs)

NoEnv == [ k \in {} |-> "" ]

Environs ==
    { NoEnv,
      [TMUX |-> ""],
      [TMUX |-> "/tmp/tmux-1000/default,12345,0"],
      [ANTHROPIC_API_KEY |-> "sk-ant-env"] }

Cwds == {Home, ProjectRoot, NestedDir}

Responses ==
    { [kind |-> "EOFError", text |-> ""], [kind |-> "KeyboardInterrupt", text |-> ""] }
      \cup { [kind |-> "line", text |-> x] : x \in {"", "y", "Y", "n", "yes"} }

FailKinds(mode) ==
    CASE mode = "list" -> {"ps", "exec"}
      [] mode = "stop" -> {"stop", "exec", "worktree list"}
      [] mode = "prune" -> {"rm", "worktree remove", "worktree list"}
      [] mode = "attach" -> {"exec"}
      [] mode = "create" -> {"init", "add", "commit", "up"}
      [] mode = "tree" -> {"worktree add", "up"}
      [] mode = "default" -> {"up", "exec"}
      [] OTHER -> {}

\* every external command succeeds, docker is installed, pass is not, the
\* prompt is answered "y"
BaseOracle ==
    [which |-> {"docker"}, failing |-> {}, pass_available |-> FALSE, pass_ok |-> {},
     response |-> [kind |-> "line", text |-> "y"], adj |-> 1, noun |-> 1]

\* the outcomes of the external commands one invocation of the mode may meet:
\* the base outcome with one of its parts varied
Oracles(mode) ==
    {BaseOracle}
      \cup { [BaseOracle EXCEPT !.failing = {k}] : k \in FailKinds(mode) }
      \cup (IF mode \in {"list", "stop", "prune"}
            THEN { [BaseOracle EXCEPT !.which = w] : w \in SUBSET {"docker", "podman"} }
            ELSE {})
      \cup (IF mode \in {"create", "tree", "default"}
            THEN { [BaseOracle EXCEPT !.pass_available = TRUE, !.pass_ok = k] :
                     k \in {{"ANTHROPIC_API_KEY", "OPENAI_API_KEY"}, {"OPENAI_API_KEY"}} }
            ELSE {})
      \cup (IF mode = "prune" THEN { [BaseOracle EXCEPT !.response = r] : r \in Responses } ELSE {})
      \cup (IF mode = "tree"
            THEN { [BaseOracle EXCEPT !.adj = i, !.noun = j] : i \in 1..MaxRandom, j \in 1..MaxRandom }
            ELSE {})

\* the command lines of one mode flag, with the modifiers the mode reads
PlainArgv(mode) ==
    CASE mode = "sync" -> {[NoArgs EXCEPT !.sync = TRUE]}
      [] mode = "list" -> { [NoArgs EXCEPT !.list = TRUE, !.all = b] : b \in BOOLEAN }
      [] mode = "stop" -> { [NoArgs EXCEPT !.stop = TRUE, !.all = b] : b \in BOOLEAN }
      [] mode = "prune" -> {[NoArgs EXCEPT !.prune = TRUE]}
      [] mode = "attach" -> {[NoArgs EXCEPT !.attach = TRUE]}
      [] mode = "create" -> { [NoArgs EXCEPT !.create = Some(n)] : n \in CreateNames }
      [] mode = "tree" -> { [NoArgs EXCEPT !.tree = Some(n), !.new = b] :
                              n \in {""} \cup TreeNames, b \in BOOLEAN }
      [] OTHER -> { [NoArgs EXCEPT !.new = b] : b \in BOOLEAN }

\* one mode with every outcome of its external commands
ModeCalls(mode) ==
    { [a |-> a, e |-> e, d |-> d, o |-> o] :
        a \in { x \in PlainArgv(mode) : Dispatch(x) = mode },
        e \in (IF mode \in {"sync", "list", "stop", "prune"}
               THEN {NoEnv, [TMUX |-> "/tmp/tmux-1000/default,12345,0"]}
               ELSE Environs),
        d \in Cwds, o \in Oracles(mode) }

\* every command line of up to MaxModeFlags mode flags, with the base outcome
DispatchCalls(mode) ==
    { [a |-> a, e |-> e, d |-> d, o |-> BaseOracle] :
        a \in { x \in Argv : Dispatch(x) = mode /\ ModeFlagCount(x) <= MaxModeFlags },
        e \in Environs, d \in Cwds }

----------------------------------------------------------------------------
(* Initial worlds *)

NoFiles == [ p \in {} |-> <<>> ]

FreshFs == [dirs |-> {<<>>, Home}, files |-> NoFiles]

RepoFs ==
    [dirs |-> {<<>>, Home, ProjectRoot, Append(ProjectRoot, ".git"), NestedDir},
     files |-> NoFiles]

\* a hand-written .devcontainer, as in test_scaffold_warns_if_exists
CustomDevcontainer(f, target_dir) ==
    write_text(mkdir(f, DevcontainerDir(target_dir)), DevcontainerJson(target_dir), <<"existing">>)

\* f with a config file: .yolo.toml in dir, well-formed or not, or a global
\* file tomllib rejects
ConfiguredFs(f, dir) ==
    { write_text(f, Append(dir, ".yolo.toml"), <<"base_image", "=", "project/image:v1">>),
      write_text(f, Append(dir, ".yolo.toml"), <<"base_image", "custom">>),
      write_text(mkdir_parents(f, Parent(GlobalConfigFile)), GlobalConfigFile,
                 <<"base_image", "custom">>) }

MainWorktree == [path |-> ProjectRoot, head |-> CommitId, ref |-> BranchRef("master")]

RepoMain ==
    [branches |-> {"master"}, tree |-> NoFiles, head |-> CommitId, worktrees |-> <<MainWorktree>>]

\* a worktree git still lists, whose directory was deleted by hand
StaleWorktree ==
    [path |-> Append(WorktreesDir(ProjectRoot), "feat"), head |-> CommitId, ref |-> BranchRef("feat")]

RepoStale ==
    [RepoMain EXCEPT !.branches = {"master", "feat"},
                     !.worktrees = <<MainWorktree, StaleWorktree>>]

Container(name, folder, state) == [name |-> name, folder |-> folder, state |-> state]

InitContainers ==
    { <<>>,
      <<Container("dc-App", ProjectRoot, "running")>>,
      <<Container("dc-App", ProjectRoot, "exited"), Container("dc-t", ForeignFolder, "exited")>> }

InitWorld ==
    \/ fs = FreshFs /\ repo = NoRepo /\ containers = <<>>
    \/ /\ fs \in {RepoFs, CustomDevcontainer(RepoFs, ProjectRoot)}
       /\ repo = RepoMain
       /\ containers \in InitContainers
    \/ /\ fs = mkdir(RepoFs, WorktreesDir(ProjectRoot))
       /\ repo = RepoStale
       /\ containers \in InitContainers
    \/ /\ fs \in ConfiguredFs(RepoFs, ProjectRoot)
       /\ repo = RepoMain
       /\ containers = <<>>
    \/ /\ fs \in ConfiguredFs(FreshFs, Home)
       /\ repo = NoRepo
       /\ containers = <<>>

Init ==
    /\ InitWorld
    /\ environ = NoEnv
    /\ cwd = Home
    /\ args = NoArgs
    /\ log = <<>>
    /\ status = "idle"
    /\ ret = FALSE
    /\ runs = 0

----------------------------------------------------------------------------
(* One action per mode: main() invoked with a command line that selects it *)

\* the first log entry keeps the cwd of the process and the container runtime
\* on its PATH ("" when there is none)
Process(e, d, o) ==
    [fs |-> fs, containers |-> containers, repo |-> repo, environ |-> e, cwd |-> d,
     log |-> <<Ev("start", d,
                  IF get_container_runtime(o) = None THEN "" ELSE get_container_runtime(o)[1],
                  TRUE)>>,
     status |-> "running"]

\* the first invocation of a behaviour draws from both, the later ones from
\* ModeCalls
Calls(mode) ==
    { c \in ModeCalls(mode) \cup (IF runs = 0 THEN DispatchCalls(mode) ELSE {}) :
        c.d \in fs.dirs }

\* the state a process leaves behind
Finish(c, r) ==
    /\ fs' = r.fs
    /\ containers' = r.containers
    /\ repo' = r.repo
    /\ environ' = r.environ
    /\ cwd' = r.cwd
    /\ log' = r.log
    /\ status' = r.status
    /\ args' = c.a
    /\ runs' = runs + 1
    /\ UNCHANGED ret

\* the process is gone; the filesystem, the containers and the repository stay
ProcessExit ==
    /\ status \in {"ok", "error", "crash"}
    /\ status' = "idle"
    /\ args' = NoArgs
    /\ environ' = NoEnv
    /\ cwd' = Home
    /\ log' = <<>>
    /\ UNCHANGED <<fs, containers, repo, ret, runs>>

SyncMode ==
    /\ status = "idle" /\ runs < MaxRuns
    /\ \E c \in Calls("sync") :
          \E g \in {main(Process(c.e, c.d, c.o), c.a)} :
          \E r \in {IF Running(g) THEN Return(run_sync_mode(g, c.a, c.o)) ELSE g} : Finish(c, r)

ListMode ==
    /\ status = "idle" /\ runs < MaxRuns
    /\ \E c \in Calls("list") :
          \E g \in {main(Process(c.e, c.d, c.o), c.a)} :
          \E r \in {IF Running(g) THEN Return(run_list_mode(g, c.a, c.o)) ELSE g} : Finish(c, r)

StopMode ==
    /\ status = "idle" /\ runs < MaxRuns
    /\ \E c \in Calls("stop") :
          \E g \in {main(Process(c.e, c.d, c.o), c.a)} :
          \E r \in {IF Running(g) THEN Return(run_stop_mode(g, c.a, c.o)) ELSE g} : Finish(c, r)

PruneMode ==
    /\ status = "idle" /\ runs < MaxRuns
    /\ \E c \in Calls("prune") :
          \E g \in {main(Process(c.e, c.d, c.o), c.a)} :
          \E r \in {IF Running(g) THEN Return(run_prune_mode(g, c.a, c.o)) ELSE g} : Finish(c, r)

AttachMode ==
    /\ status = "idle" /\ runs < MaxRuns
    /\ \E c \in Calls("attach") :
          \E g \in {main(Process(c.e, c.d, c.o), c.a)} :
          \E r \in {IF Running(g) THEN Return(run_attach_mode(g, c.a, c.o)) ELSE g} : Finish(c, r)

CreateMode ==
    /\ status = "idle" /\ runs < MaxRuns
    /\ \E c \in Calls("create") :
          \E g \in {main(Process(c.e, c.d, c.o), c.a)} :
          \E r \in {IF Running(g) THEN Return(run_create_mode(g, c.a, c.o)) ELSE g} : Finish(c, r)

TreeMode ==
    /\ status = "idle" /\ runs < MaxRuns
    /\ \E c \in Calls("tree") :
          \E g \in {main(Process(c.e, c.d, c.o), c.a)} :
          \E r \in {IF Running(g) THEN Return(run_tree_mode(g, c.a, c.o)) ELSE g} : Finish(c, r)

DefaultMode ==
    /\ status = "idle" /\ runs < MaxRuns
    /\ \E c \in Calls("default") :
          \E g \in {main(Process(c.e, c.d, c.o), c.a)} :
          \E r \in {IF Running(g) THEN Return(run_default_mode(g, c.a, c.o)) ELSE g} : Finish(c, r)


Next ==
    \/ SyncMode
    \/ ListMode
    \/ StopMode
    \/ PruneMode
    \/ AttachMode
    \/ CreateMode
    \/ TreeMode
    \/ DefaultMode
    \/ ProcessExit

Spec == Init /\ [][Next]_vars

----------------------------------------------------------------------------
(* scaffold_devcontainer and sync_devcontainer called directly, as the tests do *)

ProjectNames == {"App", "app-feat"}
BaseImages == {"localhost/emacs-gui:latest", "custom/myimage:v3"}
Targets == {ProjectRoot, Home}

\* the first log entry tells whether .devcontainer was there before the call
CallState(fn, target_dir) ==
    [fs |-> fs, containers |-> containers, repo |-> repo, environ |-> environ, cwd |-> cwd,
     log |-> <<Ev("call", target_dir, fn, Exists(fs, DevcontainerDir(target_dir)))>>,
     status |-> "running"]

InitScaffold ==
    /\ fs \in { RepoFs, mkdir(RepoFs, DevcontainerDir(ProjectRoot)),
                CustomDevcontainer(RepoFs, ProjectRoot) }
    /\ containers = <<>>
    /\ repo = RepoMain
    /\ environ = NoEnv
    /\ cwd = ProjectRoot
    /\ args = [fn |-> ""]
    /\ log = <<>>
    /\ status = "idle"
    /\ ret = FALSE
    /\ runs = 0

ScaffoldCall ==
    /\ runs < MaxRuns
    /\ \E n \in ProjectNames, img \in BaseImages, target \in Targets :
          \E r \in {scaffold_devcontainer(CallState("scaffold_devcontainer", target),
                                          n, target, [DEFAULT_CONFIG EXCEPT !.base_image = img])} :
             /\ fs' = r.st.fs
             /\ log' = r.st.log
             /\ ret' = r.ret
             /\ args' = [fn |-> "scaffold_devcontainer", project_name |-> n, target_dir |-> target,
                         base_image |-> img]
    /\ status' = "ok"
    /\ runs' = runs + 1
    /\ UNCHANGED <<containers, repo, environ, cwd>>

SyncCall ==
    /\ runs < MaxRuns
    /\ \E n \in ProjectNames, img \in BaseImages, target \in Targets :
          \E r \in {sync_devcontainer(CallState("sync_devcontainer", target),
                                      n, target, [DEFAULT_CONFIG EXCEPT !.base_image = img])} :
             /\ fs' = r.fs
             /\ log' = r.log
             /\ args' = [fn |-> "sync_devcontainer", project_name |-> n, target_dir |-> target,
                         base_image |-> img]
    /\ ret' = FALSE
    /\ status' = "ok"
    /\ runs' = runs + 1
    /\ UNCHANGED <<containers, repo, environ, cwd>>

NextScaffold ==
    \/ ScaffoldCall
    \/ SyncCall

SpecScaffold == InitScaffold /\ [][NextScaffold]_vars

----------------------------------------------------------------------------
(* The helper functions called directly, as the tests do *)

\* devcontainer.json files: the template, hand-written ones with and without
\* a mounts list, one with other fields after the list, and two that
\* add_worktree_git_mount cannot handle
ManifestTexts ==
    { Replace(DEVCONTAINER_JSON_TEMPLATE, "PROJECT_NAME", "App"),
      <<"{", "name", "App", "}">>,
      <<"{", "name", "App", "mounts", "[", "]", "}">>,
      <<"{", "mounts", "[", "source=/a,target=/a,type=bind", "]", "name", "App", "}">>,
      <<"{", "mounts", "none", "}">>,
      <<"existing">> }

\* config files of one layer: every choice of the keys base_image and
\* pass_path_openai, each value marked with the layer, and a text tomllib rejects
ConfigTexts(layer) ==
    { (IF "base_image" \in keys THEN <<"base_image", "=", layer \o "/image:v1">> ELSE <<>>)
        \o (IF "pass_path_openai" \in keys
            THEN <<"pass_path_openai", "=", layer \o "/openai">> ELSE <<>>) :
      keys \in SUBSET {"base_image", "pass_path_openai"} }
      \cup {<<"base_image", "custom">>}

\* f with the file written when there is a text for it
WithFile(f, p, optional_text) ==
    IF optional_text = None THEN f
    ELSE write_text(mkdir_parents(f, Parent(p)), p, optional_text[1])

\* the outcomes a direct call of a runtime adapter may meet
RuntimeOracles ==
    { [BaseOracle EXCEPT !.which = w, !.failing = k] :
        w \in SUBSET {"docker", "podman"}, k \in {{}, {"ps"}, {"stop"}, {"rm"}} }

\* the blocks git prints: the main tree, a worktree on a branch, one with a
\* detached HEAD, one on a branch whose name contains refs/heads/
PorcelainBlocks ==
    { <<Line("worktree", ProjectRoot), Line("HEAD", CommitId), Line("branch", BranchRef("master"))>>,
      <<Line("worktree", Append(WorktreesDir(ProjectRoot), "feat")), Line("HEAD", CommitId),
        Line("branch", BranchRef("feat"))>>,
      <<Line("worktree", Append(WorktreesDir(ProjectRoot), "t")), Line("HEAD", CommitId),
        Line("detached", <<>>)>>,
      <<Line("worktree", Append(WorktreesDir(ProjectRoot), "x")), Line("HEAD", CommitId),
        Line("branch", <<"refs", "heads", "x", "refs", "heads", "y">>)>> }

RECURSIVE PorcelainTexts(_)
\* the listings of n blocks, a blank line between two blocks
PorcelainTexts(n) ==
    IF n = 0 THEN {<<>>}
    ELSE IF n = 1 THEN PorcelainBlocks
    ELSE { b \o <<Line("", <<>>)>> \o rest : b \in PorcelainBlocks, rest \in PorcelainTexts(n - 1) }

InitUnits ==
    /\ \/ fs = RepoFs
       \/ fs = mkdir(RepoFs, WorktreesDir(ProjectRoot))
       \/ fs = mkdir_parents(RepoFs, Append(WorktreesDir(ProjectRoot), "feat"))
       \/ fs \in { FreshFs, mkdir(FreshFs, <<".git">>), mkdir(RepoFs, <<".git">>),
                   write_text(mkdir_parents(RepoFs, Append(WorktreesDir(ProjectRoot), "feat")),
                              Append(Append(WorktreesDir(ProjectRoot), "feat"), ".git"), <<"gitdir:">>) }
       \/ \E text \in ManifestTexts :
             fs = write_text(mkdir(RepoFs, DevcontainerDir(ProjectRoot)),
                             DevcontainerJson(ProjectRoot), text)
       \/ \E g \in {None} \cup { Some(x) : x \in ConfigTexts("global") },
             p \in {None} \cup { Some(x) : x \in ConfigTexts("project") } :
             fs = WithFile(WithFile(RepoFs, GlobalConfigFile, g),
                           Append(ProjectRoot, ".yolo.toml"), p)
    /\ containers \in (IF fs = RepoFs THEN InitContainers ELSE {<<>>})
    /\ repo = RepoMain
    /\ environ = NoEnv
    /\ cwd = ProjectRoot
    /\ args = [fn |-> ""]
    /\ log = <<>>
    /\ status = "idle"
    /\ ret = FALSE
    /\ runs = 0

\* what a direct call leaves behind
Returned(call, s, value) ==
    /\ args' = call
    /\ ret' = value
    /\ fs' = s.fs
    /\ containers' = s.containers
    /\ repo' = s.repo
    /\ environ' = s.environ
    /\ cwd' = s.cwd
    /\ log' = s.log
    /\ status' = IF Running(s) THEN "ok" ELSE s.status
    /\ runs' = runs + 1

MountCall ==
    /\ status = "idle" /\ runs < MaxRuns
    /\ \E main_git_dir \in {Append(ProjectRoot, ".git"), Append(Home, ".git")} :
          \E r \in {add_worktree_git_mount(Process(NoEnv, ProjectRoot, BaseOracle),
                                           DevcontainerJson(ProjectRoot), main_git_dir)} :
             Returned([fn |-> "add_worktree_git_mount",
                       devcontainer_json_path |-> DevcontainerJson(ProjectRoot),
                       main_git_dir |-> main_git_dir], r, FALSE)

ConfigCall ==
    /\ status = "idle" /\ runs < MaxRuns
    /\ \E d \in {ProjectRoot, NestedDir} :
          \E r \in {load_config(Process(NoEnv, d, BaseOracle))} :
             Returned([fn |-> "load_config"], r.st, r.ret)

ListDevcontainersCall ==
    /\ status = "idle" /\ runs < MaxRuns
    /\ \E o \in RuntimeOracles :
          \E r \in {list_all_devcontainers(Process(NoEnv, ProjectRoot, o), o)} :
             Returned([fn |-> "list_all_devcontainers", o |-> o], r.st, r.ret)

ContainerForWorkspaceCall ==
    /\ status = "idle" /\ runs < MaxRuns
    /\ \E o \in RuntimeOracles, workspace_dir \in {ProjectRoot, ForeignFolder} :
          \E r \in {get_container_for_workspace(Process(NoEnv, ProjectRoot, o), workspace_dir, o)} :
             Returned([fn |-> "get_container_for_workspace", o |-> o,
                       workspace_dir |-> workspace_dir], r.st, r.ret)

StoppedContainersCall ==
    /\ status = "idle" /\ runs < MaxRuns
    /\ \E o \in RuntimeOracles :
          \E r \in {find_stopped_containers_for_project(Process(NoEnv, ProjectRoot, o),
                                                        ProjectRoot, o)} :
             Returned([fn |-> "find_stopped_containers_for_project", o |-> o,
                       git_root |-> ProjectRoot], r.st, r.ret)

StopContainerCall ==
    /\ status = "idle" /\ runs < MaxRuns
    /\ \E o \in RuntimeOracles, workspace_dir \in {ProjectRoot, ForeignFolder} :
          \E r \in {stop_container(Process(NoEnv, ProjectRoot, o), workspace_dir, o)} :
             Returned([fn |-> "stop_container", o |-> o, workspace_dir |-> workspace_dir],
                      r.st, r.ret)

RemoveContainerCall ==
    /\ status = "idle" /\ runs < MaxRuns
    /\ \E o \in RuntimeOracles, container_name \in {"dc-App", "dc-t"} :
          \E r \in {remove_container(Process(NoEnv, ProjectRoot, o), container_name, o)} :
             Returned([fn |-> "remove_container", o |-> o, container_name |-> container_name],
                      r.st, r.ret)

\* git prints up to MaxBlocks blocks, with or without a blank line at the end
ListWorktreesCall ==
    /\ status = "idle" /\ runs < MaxRuns
    /\ \E n \in 0..MaxBlocks, failing \in {{}, {"worktree list"}} :
          \E text \in PorcelainTexts(n), last \in {<<>>, <<Line("", <<>>)>>} :
             \E o \in {[which |-> {"docker"}, failing |-> failing, stdout |-> text \o last]} :
                \E r \in {list_worktrees(Process(NoEnv, ProjectRoot, o), ProjectRoot, o)} :
                   Returned([fn |-> "list_worktrees", o |-> o], r.st, r.ret)

WorkspacesCall ==
    /\ status = "idle" /\ runs < MaxRuns
    /\ \E n \in 0..MaxBlocks, failing \in {{}, {"worktree list"}} :
          \E text \in PorcelainTexts(n) :
             \E o \in {[which |-> {"docker"}, failing |-> failing, stdout |-> text]} :
                \E r \in {find_project_workspaces(Process(NoEnv, ProjectRoot, o), ProjectRoot, o)} :
                   Returned([fn |-> "find_project_workspaces", o |-> o, git_root |-> ProjectRoot],
                            r.st, r.ret)

StaleWorktreesCall ==
    /\ status = "idle" /\ runs < MaxRuns
    /\ \E n \in 0..MaxBlocks, failing \in {{}, {"worktree list"}} :
          \E text \in PorcelainTexts(n) :
             \E o \in {[which |-> {"docker"}, failing |-> failing, stdout |-> text]} :
                \E r \in {find_stale_worktrees(Process(NoEnv, ProjectRoot, o), ProjectRoot, o)} :
                   Returned([fn |-> "find_stale_worktrees", o |-> o, git_root |-> ProjectRoot],
                            r.st, r.ret)

FindGitRootCall ==
    /\ status = "idle" /\ runs < MaxRuns
    /\ \E start_path \in {<<>>, Home, ProjectRoot, NestedDir, <<"srv">>,
                          Append(WorktreesDir(ProjectRoot), "feat")} :
          \E r \in {find_git_root_from(fs, start_path)} :
             Returned([fn |-> "find_git_root", start_path |-> start_path],
                      Process(NoEnv, ProjectRoot, BaseOracle), r)

\* the path strings a direct call is given: with and without trailing
\* slashes, and the filesystem root
ContainerNameCall ==
    /\ status = "idle" /\ runs < MaxRuns
    /\ \E project_path \in {StrOf(ProjectRoot), StrOf(ProjectRoot) \o <<"/">>,
                            StrOf(ProjectRoot) \o <<"/", "/">>, StrOf(Home), <<"/">>},
          worktree_name \in {None, Some(""), Some("feat")} :
          Returned([fn |-> "get_container_name", project_path |-> project_path,
                    worktree_name |-> worktree_name],
                   Process(NoEnv, ProjectRoot, BaseOracle),
                   get_container_name(project_path, worktree_name))

WorktreePathCall ==
    /\ status = "idle" /\ runs < MaxRuns
    /\ \E project_path \in {StrOf(ProjectRoot), StrOf(ProjectRoot) \o <<"/">>,
                            StrOf(ProjectRoot) \o <<"/", "/">>, StrOf(Home), <<"/">>},
          worktree_name \in {"feat", "t"} :
          Returned([fn |-> "get_worktree_path", project_path |-> project_path,
                    worktree_name |-> worktree_name],
                   Process(NoEnv, ProjectRoot, BaseOracle),
                   get_worktree_path(project_path, worktree_name))

\* the command lines of up to two tokens, and those of the parser's tests
CommandLines ==
    { <<>> } \cup { <<x>> : x \in OptionLike \cup {"test"} }
      \cup { <<x, y>> : x \in OptionLike, y \in OptionLike \cup {"test"} }
      \cup { <<"--detach", "--tree", "test">>, <<"--tree", "test", "--from", "main">>,
              <<"--tree", "feature", "--from", "develop">>, <<"--tree", "test", "--new">> }

ParseArgsCall ==
    /\ status = "idle" /\ runs < MaxRuns
    /\ \E argv \in CommandLines :
          \E r \in {parse_args(argv)} :
             Returned([fn |-> "parse_args", argv |-> argv],
                      IF r.ok THEN Process(NoEnv, ProjectRoot, BaseOracle)
                      ELSE Exit(Process(NoEnv, ProjectRoot, BaseOracle), "2"),
                      r.ns)

SecretsCall ==
    /\ status = "idle" /\ runs < MaxRuns
    /\ \E e \in { [ k \in keys |-> "env:" \o k ] : keys \in SUBSET {"ANTHROPIC_API_KEY", "OPENAI_API_KEY"} },
          available \in BOOLEAN, ok \in SUBSET {"ANTHROPIC_API_KEY", "OPENAI_API_KEY"},
          config \in {DEFAULT_CONFIG, [DEFAULT_CONFIG EXCEPT !.pass_path_openai = "work/openai"]} :
          \E o \in {[BaseOracle EXCEPT !.pass_available = available, !.pass_ok = ok]} :
             \E r \in {get_secrets(Process(e, ProjectRoot, o), config, o)} :
                Returned([fn |-> "get_secrets", o |-> o, config |-> config], r.st, r.ret)

\* the caller goes on: the world stays, the call and its result are forgotten
UnitReturn ==
    /\ status # "idle"
    /\ status' = "idle"
    /\ args' = [fn |-> ""]
    /\ log' = <<>>
    /\ ret' = FALSE
    /\ environ' = NoEnv
    /\ cwd' = ProjectRoot
    /\ UNCHANGED <<fs, containers, repo, runs>>

NextUnits ==
    \/ UnitReturn
    \/ MountCall
    \/ ConfigCall
    \/ ListDevcontainersCall
    \/ ContainerForWorkspaceCall
    \/ StoppedContainersCall
    \/ StopContainerCall
    \/ RemoveContainerCall
    \/ ListWorktreesCall
    \/ WorkspacesCall
    \/ StaleWorktreesCall
    \/ SecretsCall
    \/ FindGitRootCall
    \/ ParseArgsCall
    \/ ContainerNameCall
    \/ WorktreePathCall

SpecUnits == InitUnits /\ [][NextUnits]_vars

----------------------------------------------------------------------------
(* The claims *)

Done == status \in {"ok", "error", "crash"}

\* a step that is one whole invocation of main()
Invocation == status = "idle" /\ status' # "idle"

Events(l, ops) == SelectSeq(l, LAMBDA e : e.op \in ops)

Orchestrators(l) == [ i \in 1..Len(Events(l, {"orchestrator"})) |-> Events(l, {"orchestrator"})[i].arg ]

HasEvent(l, op) == \E i \in 1..Len(l) : l[i].op = op

StartCwd(l) == l[1].path

PriorityOrder == <<"sync", "list", "stop", "prune", "attach", "create", "tree", "default">>

\* the mode flags given on the command line; default is always available
Given(a, mode) ==
    CASE mode = "create" -> a.create # None
      [] mode = "tree" -> a.tree # None
      [] mode = "default" -> TRUE
      [] OTHER -> a[mode]

\* as Given, but --create counts only with a non-empty NAME
GivenNonEmpty(a, mode) == Given(a, mode) /\ (mode = "create" => a.create # Some(""))

FirstGiven(a) == PriorityOrder[CHOOSE i \in 1..8 : Given(a, PriorityOrder[i]) /\ \A j \in 1..(i - 1) : ~Given(a, PriorityOrder[j])]

FirstGivenNonEmpty(a) ==
    PriorityOrder[CHOOSE i \in 1..8 :
                    /\ GivenNonEmpty(a, PriorityOrder[i])
                    /\ \A j \in 1..(i - 1) : ~GivenNonEmpty(a, PriorityOrder[j])]

TmuxModes == {"attach", "create", "tree", "default"}

GuardMessage == "Error: Already in tmux session. Nested tmux not supported."

GuardRejected(l) == \E i \in 1..Len(l) : l[i].op = "sys.exit" /\ l[i].arg = GuardMessage

\* C1 as stated: every invocation runs exactly one mode orchestrator, the first
\* one given in the order sync, list, stop, prune, attach, create, tree, default.
C1_ExactlyOneOrchestrator == Done => Orchestrators(log) = <<FirstGiven(args)>>

\* C1, amended: every invocation runs at most one mode orchestrator; it is the
\* first one given in the priority order, --create counting only with a
\* non-empty NAME, and it runs unless TMUX is non-empty and that mode is
\* attach, create, tree or default, in which case no orchestrator runs.
C1_AtMostOneOrchestrator ==
    Done =>
        IF "TMUX" \in DOMAIN environ /\ environ["TMUX"] # ""
              /\ FirstGivenNonEmpty(args) \in TmuxModes
        THEN Orchestrators(log) = <<>>
        ELSE Orchestrators(log) = <<FirstGivenNonEmpty(args)>>

\* two mode flags on one command line; the earlier one in the order ran
C1_Witness == Done /\ args.sync /\ args.stop /\ Orchestrators(log) = <<"sync">>

\* C2: with TMUX non-empty, attach, create, tree and default end with an error
\* before any filesystem change or subprocess call; sync, list, stop and prune
\* run; with TMUX unset the guard never rejects.
C2_TmuxGuard ==
    [][Invocation =>
        LET mode == FirstGivenNonEmpty(args') IN
        /\ ("TMUX" \in DOMAIN environ' /\ environ'["TMUX"] # "" /\ mode \in TmuxModes
              => /\ status' = "error"
                 /\ Len(log') = 2 /\ log'[2].op = "sys.exit" /\ log'[2].arg = GuardMessage
                 /\ fs' = fs /\ containers' = containers /\ repo' = repo)
        /\ ("TMUX" \in DOMAIN environ' /\ environ'["TMUX"] # "" /\ mode \notin TmuxModes
              => Orchestrators(log') = <<mode>> /\ ~GuardRejected(log'))
        /\ ("TMUX" \notin DOMAIN environ' => ~GuardRejected(log'))]_vars

\* --attach inside a tmux session: rejected by the guard
C2_Witness ==
    /\ status = "error" /\ args.attach
    /\ "TMUX" \in DOMAIN environ /\ environ["TMUX"] # ""
    /\ GuardRejected(log)

\* the manifest and the Dockerfile the templates give for a name and an image
ExpectedManifest(project_name) ==
    [ i \in 1..Len(DEVCONTAINER_JSON_TEMPLATE) |->
        IF i = 3 THEN project_name ELSE DEVCONTAINER_JSON_TEMPLATE[i] ]

ExpectedDockerfile(base_image) ==
    <<"FROM", base_image>> \o SubSeq(DOCKERFILE_TEMPLATE, 3, Len(DOCKERFILE_TEMPLATE))

Templated(f, target_dir, project_name, base_image) ==
    /\ DevcontainerDir(target_dir) \in f.dirs
    /\ DevcontainerJson(target_dir) \in DOMAIN f.files
    /\ Dockerfile(target_dir) \in DOMAIN f.files
    /\ f.files[DevcontainerJson(target_dir)] = ExpectedManifest(project_name)
    /\ f.files[Dockerfile(target_dir)] = ExpectedDockerfile(base_image)

DirectCall(fn) == runs' = runs + 1 /\ args'.fn = fn

\* C3: scaffold_devcontainer on a target whose .devcontainer exists returns
\* False and changes no file; otherwise it creates the directory with both
\* files and returns True.
C3_ScaffoldKeepsExisting ==
    [][DirectCall("scaffold_devcontainer") =>
        IF Exists(fs, DevcontainerDir(args'.target_dir))
        THEN ret' = FALSE /\ fs' = fs
        ELSE /\ ret' = TRUE
             /\ Templated(fs', args'.target_dir, args'.project_name, args'.base_image)]_vars

\* scaffold on a target that holds the files of another project name: refused
C3_Witness ==
    /\ args.fn = "scaffold_devcontainer" /\ ret = FALSE /\ args.project_name = "app-feat"
    /\ DevcontainerJson(args.target_dir) \in DOMAIN fs.files
    /\ fs.files[DevcontainerJson(args.target_dir)] = ExpectedManifest("App")

\* C4: after sync_devcontainer both files hold the templated content for the
\* given name and base image, whatever was there before, and a second sync with
\* the same arguments changes nothing.
C4_SyncOverwrites ==
    [][DirectCall("sync_devcontainer") =>
        /\ Templated(fs', args'.target_dir, args'.project_name, args'.base_image)
        /\ \A p \in DOMAIN fs.files :
              p \notin {DevcontainerJson(args'.target_dir), Dockerfile(args'.target_dir)}
                 => p \in DOMAIN fs'.files /\ fs'.files[p] = fs.files[p]
        /\ (args = args' => fs' = fs)]_vars

\* sync over the files of another name and image
C4_Witness ==
    /\ args.fn = "sync_devcontainer" /\ runs = 2 /\ log[1].ok
    /\ args.project_name = "App" /\ args.base_image = "custom/myimage:v3"
    /\ Templated(fs, args.target_dir, "App", "custom/myimage:v3")

RemovalOps == {"docker rm", "podman rm", "git worktree remove"}

Removals(l) == Events(l, RemovalOps)

Inputs(l) == Events(l, {"input"})

\* the line typed at the prompt is exactly y or Y
SaidYes(e) == e.path = <<"line">> /\ e.arg \in {"y", "Y"}

\* C5: prune removes a container or a worktree only after the prompt was
\* answered y or Y; after any other answer, EOF or an interrupt it removes
\* nothing, changes nothing and exits with status 0.
C5_PruneAsksFirst ==
    [][Invocation /\ Orchestrators(log') = <<"prune">> =>
        /\ Removals(log') # <<>> =>
              /\ Len(Inputs(log')) = 1 /\ SaidYes(Inputs(log')[1])
              /\ \A i, j \in 1..Len(log') :
                    log'[i].op = "input" /\ log'[j].op \in RemovalOps => i < j
        /\ Inputs(log') # <<>> /\ ~SaidYes(Inputs(log')[1]) =>
              /\ Removals(log') = <<>>
              /\ status' = "ok"
              /\ fs' = fs /\ containers' = containers /\ repo' = repo]_vars

\* a stopped container was offered, the prompt met EOF, the container is kept
C5_Witness ==
    /\ status = "ok" /\ args.prune
    /\ HasEvent(log, "offer container")
    /\ Inputs(log) # <<>> /\ Inputs(log)[1].path = <<"EOFError">>
    /\ \E i \in 1..Len(containers) : containers[i].folder = ProjectRoot /\ containers[i].state = "exited"

\* the containers of the project at git_root that are not running: the one of
\* git_root itself and those whose folder is directly inside the sibling
\* directory <project>-worktrees of git_root
OwnStopped(cs, git_root) ==
    SelectSeq(cs, LAMBDA c :
        /\ c.state # "running"
        /\ c.folder = git_root \/ Parent(c.folder) = WorktreesDir(git_root))

\* C6 as stated: find_stopped_containers_for_project returns exactly the
\* not-running containers of this repository and of its own worktrees, and
\* prune never offers a container of another project tree.
C6_OnlyOwnContainers ==
    /\ \A git_root \in {ProjectRoot} :
          git_root \in fs.dirs =>
             find_stopped_containers_for_project(Process(NoEnv, git_root, BaseOracle), git_root, BaseOracle).ret
                = OwnStopped(containers, git_root)
    /\ Done /\ Orchestrators(log) = <<"prune">> =>
          \A i \in 1..Len(log) :
             log[i].op = "offer container" =>
                LET git_root == find_git_root_from(fs, StartCwd(log))[1] IN
                log[i].path = git_root \/ Parent(log[i].path) = WorktreesDir(git_root)

Visits(l) == Events(l, {"for workspace"})

\* C7 as stated: stop --all visits the main repository only after every
\* worktree, whatever the branches are called; a workspace whose directory is
\* missing is skipped, and only running workspaces are stopped.
C7_MainRepositoryLast ==
    Done /\ args.stop /\ args.all /\ Visits(log) # <<>> =>
        LET git_root == find_git_root_from(fs, StartCwd(log))[1] IN
        /\ \A i, j \in 1..Len(Visits(log)) :
              Visits(log)[i].path = git_root /\ Visits(log)[j].path # git_root => j < i
        /\ \A i \in 1..Len(log) :
              log[i].op = "devcontainer exec true" => Exists(fs, log[i].path)
        /\ \A i \in 1..Len(log) :
              log[i].op \in {"docker stop", "podman stop"} =>
                 \E j \in 1..(i - 1) :
                    /\ log[j].op = "devcontainer exec true"
                    /\ log[j].path = log[i].path /\ log[j].ok

\* the sibling directory <project>-worktrees/<name> of the repository root
SiblingWorktree(git_root, name) ==
    Append(Parent(git_root), PathName(git_root) \o "-worktrees") \o PathParts(name)

Below(f, p) ==
    [dirs |-> { q \in f.dirs : IsPrefix(p, q) },
     files |-> [ q \in { x \in DOMAIN f.files : IsPrefix(p, x) } |-> f.files[q] ]]

CreationOps == {"git worktree add", "copytree", "scaffold", "add mount"}

\* C8: tree mode with a NAME whose worktree path exists reuses the path as it
\* is: no git worktree add, no copy or scaffold of .devcontainer, no mount
\* injected, nothing below the path changed.
C8_ReusesWorktree ==
    [][Invocation /\ Orchestrators(log') = <<"tree">> /\ args'.tree # Some("")
          /\ find_git_root_from(fs, StartCwd(log')) # None
          /\ Exists(fs, SiblingWorktree(find_git_root_from(fs, StartCwd(log'))[1], args'.tree[1]))
       => LET git_root == find_git_root_from(fs, StartCwd(log'))[1]
              worktree_path == SiblingWorktree(git_root, args'.tree[1])
          IN /\ Events(log', CreationOps) = <<>>
             /\ Below(fs', worktree_path) = Below(fs, worktree_path)
             /\ repo' = repo
             /\ status' # "crash" =>
                   \E i \in 1..Len(log') :
                      /\ log'[i].op = "print" /\ log'[i].arg = "Using existing worktree"
                      /\ log'[i].path = worktree_path
             /\ \A i \in 1..Len(log') :
                   log'[i].op \in {"devcontainer up", "devcontainer exec tmux"}
                      => log'[i].path = worktree_path]_vars

\* the second --tree feat: the worktree of the first one is reused
C8_Witness ==
    /\ status = "ok" /\ runs = 2 /\ args.tree = Some("feat")
    /\ \E i \in 1..Len(log) : log[i].op = "print" /\ log[i].arg = "Using existing worktree"
    /\ DevcontainerJson(SiblingWorktree(ProjectRoot, "feat")) \in DOMAIN fs.files
    /\ HasEvent(log, "devcontainer exec tmux")

\* C9: create mode started inside a git repository, or with a NAME that exists
\* in the current directory, exits with an error before it makes a directory,
\* runs git or starts a container.
C9_CreateValidatesFirst ==
    [][Invocation /\ Orchestrators(log') = <<"create">>
          /\ \/ find_git_root_from(fs, StartCwd(log')) # None
             \/ Exists(fs, Append(StartCwd(log'), args'.create[1]))
       => /\ status' = "error"
          /\ Len(log') = 3 /\ log'[3].op = "sys.exit"
          /\ log'[3].arg = IF find_git_root_from(fs, StartCwd(log')) # None
                           THEN "Error: Already in a git repository. Use --tree for worktrees."
                           ELSE "Error: Directory already exists"
          /\ fs' = fs /\ repo' = repo /\ containers' = containers]_vars

\* --create App next to an existing directory App
C9_Witness ==
    /\ status = "error" /\ args.create = Some("App")
    /\ StartCwd(log) = Home /\ Exists(fs, ProjectRoot)
    /\ \E i \in 1..Len(log) : log[i].op = "sys.exit" /\ log[i].arg = "Error: Directory already exists"

\* C10: default mode, once in a repository, starts the container iff --new is
\* given or the container is not reported running; it removes the existing
\* container iff --new is given; it attaches iff no start was needed or the
\* start succeeded, and exits with an error after a failed start.
C10_DefaultStartsWhenNeeded ==
    [][Invocation /\ Orchestrators(log') = <<"default">> /\ status' # "crash"
          /\ find_git_root_from(fs, StartCwd(log')) # None
       => LET git_root == find_git_root_from(fs, StartCwd(log'))[1]
              checks == Events(log', {"devcontainer exec true"})
              ups == Events(log', {"devcontainer up"})
              attaches == Events(log', {"devcontainer exec tmux"})
          IN /\ Len(ups) <= 1 /\ Len(attaches) <= 1
             /\ ~args'.new => Len(checks) = 1 /\ checks[1].path = git_root
             /\ \A i \in 1..Len(checks) :
                   checks[i].ok => \E k \in 1..Len(containers) :
                                      containers[k].folder = git_root /\ containers[k].state = "running"
             /\ ups # <<>> <=> (args'.new \/ ~checks[1].ok)
             /\ ups # <<>> =>
                   /\ ups[1].path = git_root
                   /\ ups[1].arg = "--remove-existing-container" <=> args'.new
             /\ attaches # <<>> <=> (ups = <<>> \/ ups[1].ok)
             /\ attaches # <<>> =>
                   /\ attaches[1].path = git_root
                   /\ log'[Len(log')].op = "devcontainer exec tmux"
                   /\ status' = "ok"
             /\ ups # <<>> /\ ~ups[1].ok =>
                   status' = "error" /\ log'[Len(log')].op = "sys.exit"]_vars

\* plain yolo with the container already running: attached without a start
C10_Witness ==
    /\ status = "ok" /\ Orchestrators(log) = <<"default">> /\ ~args.new
    /\ Events(log, {"devcontainer exec true"}) # <<>>
    /\ Events(log, {"devcontainer exec true"})[1].ok
    /\ ~HasEvent(log, "devcontainer up")
    /\ HasEvent(log, "devcontainer exec tmux")

\* the mounts list of a manifest (empty when it has no mounts field) and its
\* other fields
MountsOf(text) ==
    LET fields == json_loads(text).fields IN
    IF \E i \in 1..Len(fields) : fields[i].key = "mounts"
    THEN fields[CHOOSE i \in 1..Len(fields) : fields[i].key = "mounts"].val
    ELSE <<>>

OtherFields(text) == SelectSeq(json_loads(text).fields, LAMBDA f : f.key # "mounts")

WellFormedManifest(f, p) ==
    /\ p \in DOMAIN f.files
    /\ json_loads(f.files[p]).ok
    /\ \A i \in 1..Len(json_loads(f.files[p]).fields) :
          json_loads(f.files[p]).fields[i].key = "mounts" => json_loads(f.files[p]).fields[i].list

BindMount(main_git_dir) ==
    IF main_git_dir = <<"home", "App", ".git">>
    THEN "source=/home/App/.git,target=/home/App/.git,type=bind"
    ELSE "source=/home/.git,target=/home/.git,type=bind"

\* C11: add_worktree_git_mount on a manifest with N mounts leaves N+1: the N
\* old ones in order, then the bind mount of the given git directory; a
\* manifest without a mounts field gets exactly that one; the other fields of
\* the manifest are unchanged.
C11_MountAppended ==
    [][DirectCall("add_worktree_git_mount")
          /\ WellFormedManifest(fs, args'.devcontainer_json_path)
       => LET p == args'.devcontainer_json_path IN
          /\ status' = "ok"
          /\ WellFormedManifest(fs', p)
          /\ Len(MountsOf(fs'.files[p])) = Len(MountsOf(fs.files[p])) + 1
          /\ MountsOf(fs'.files[p]) = Append(MountsOf(fs.files[p]), BindMount(args'.main_git_dir))
          /\ OtherFields(fs'.files[p]) = OtherFields(fs.files[p])
          /\ \A q \in DOMAIN fs.files : q # p => q \in DOMAIN fs'.files /\ fs'.files[q] = fs.files[q]]_vars

\* the second injection into the template's manifest: eleven mounts, the two
\* injected ones last and in the order of the calls
C11_Witness ==
    /\ args.fn = "add_worktree_git_mount" /\ runs = 2 /\ status = "ok"
    /\ args.main_git_dir = Append(Home, ".git")
    /\ Len(MountsOf(fs.files[DevcontainerJson(ProjectRoot)])) = 11
    /\ MountsOf(fs.files[DevcontainerJson(ProjectRoot)])[10] = BindMount(Append(ProjectRoot, ".git"))
    /\ MountsOf(fs.files[DevcontainerJson(ProjectRoot)])[11] = BindMount(Append(Home, ".git"))

\* what a config file says about a key, read off its "key = value" lines
Defines(f, p, key) ==
    p \in DOMAIN f.files /\ \E i \in 1..Len(f.files[p]) : i % 3 = 1 /\ f.files[p][i] = key

ValueIn(f, p, key) ==
    f.files[p][(CHOOSE i \in 1..Len(f.files[p]) : i % 3 = 1 /\ f.files[p][i] = key) + 2]

ProjectConfig(d) == Append(d, ".yolo.toml")

\* C12: load_config gives every key the project file's value when the project
\* file defines the key, else the global file's when it defines the key, else
\* the built-in default; a missing file is skipped without error.
C12_ConfigLayers ==
    args.fn = "load_config"
       /\ (GlobalConfigFile \in DOMAIN fs.files => TomlOk(fs.files[GlobalConfigFile]))
       /\ (ProjectConfig(cwd) \in DOMAIN fs.files => TomlOk(fs.files[ProjectConfig(cwd)]))
    => /\ status = "ok"
       /\ DOMAIN ret = {"base_image", "pass_path_anthropic", "pass_path_openai"}
       /\ \A key \in DOMAIN ret :
             ret[key] = IF Defines(fs, ProjectConfig(cwd), key)
                        THEN ValueIn(fs, ProjectConfig(cwd), key)
                        ELSE IF Defines(fs, GlobalConfigFile, key)
                        THEN ValueIn(fs, GlobalConfigFile, key)
                        ELSE IF key = "base_image" THEN "localhost/emacs-gui:latest"
                        ELSE IF key = "pass_path_anthropic" THEN "api/llm/anthropic"
                        ELSE "api/llm/openai"

\* the global file sets both keys, the project file only the image: the image
\* is the project's, the openai path stays the global one
C12_Witness ==
    /\ args.fn = "load_config" /\ status = "ok" /\ cwd = ProjectRoot
    /\ Defines(fs, GlobalConfigFile, "pass_path_openai")
    /\ Defines(fs, GlobalConfigFile, "base_image")
    /\ Defines(fs, ProjectConfig(cwd), "base_image")
    /\ ~Defines(fs, ProjectConfig(cwd), "pass_path_openai")
    /\ ret["base_image"] = "project/image:v1"
    /\ ret["pass_path_openai"] = "global/openai"
    /\ ret["pass_path_anthropic"] = "api/llm/anthropic"

\* the external commands that change something: git, the devcontainer CLI's
\* up, the runtime's stop and rm
ActionOps ==
    {"git init", "git add", "git commit", "git worktree add", "git worktree remove",
     "devcontainer up", "docker stop", "podman stop", "docker rm", "podman rm"}

\* C13 as stated: an invocation in which a validation or an external command
\* failed ends with a non-zero exit status; status 0 means every step of the
\* mode succeeded, create's git add/commit, stop --all's stops and prune's
\* removals included.
C13_FailureIsNonZero ==
    Done /\ status = "ok" =>
        \A i \in 1..Len(log) :
           /\ log[i].op \in ActionOps => log[i].ok
           /\ log[i].op # "sys.exit"

\* neither docker nor podman was on the PATH of the invocation
NoRuntime(l) == l[1].op = "start" /\ l[1].arg = ""

\* C14 as stated: without a container runtime, stop, stop --all and list --all
\* end with a fatal error, whatever the state of the project, a workspace
\* whose container is reported running included.
C14_NoRuntimeIsFatal ==
    Done /\ NoRuntime(log)
       /\ (Orchestrators(log) = <<"stop">> \/ (Orchestrators(log) = <<"list">> /\ args.all))
    => status = "error"

RuntimeAdapters ==
    {"list_all_devcontainers", "get_container_for_workspace",
     "find_stopped_containers_for_project", "stop_container", "remove_container"}

\* C15: without a container runtime every adapter returns its empty value
\* (empty list, none, False) and runs no runtime command.
C15_NoRuntimeNoCommand ==
    [][runs' = runs + 1 /\ args'.fn \in RuntimeAdapters /\ args'.o.which = {}
       => /\ ret' = CASE args'.fn \in {"stop_container", "remove_container"} -> FALSE
                      [] args'.fn = "get_container_for_workspace" -> None
                      [] OTHER -> <<>>
          /\ \A i \in 2..Len(log') : log'[i].op = "stderr"
          /\ containers' = containers /\ fs' = fs /\ repo' = repo]_vars

\* stop_container without a runtime while the container of the workspace runs
C15_Witness ==
    /\ args.fn = "stop_container" /\ args.o.which = {} /\ ret = FALSE
    /\ args.workspace_dir = ProjectRoot
    /\ \E i \in 1..Len(containers) :
          containers[i].folder = ProjectRoot /\ containers[i].state = "running"

RECURSIVE SplitBlocks(_)
\* the blocks of a listing: the runs of lines between blank lines
SplitBlocks(lines) ==
    IF lines = <<>> THEN <<>>
    ELSE IF \E i \in 1..Len(lines) : lines[i].k = ""
    THEN LET i == CHOOSE i \in 1..Len(lines) :
                     lines[i].k = "" /\ \A j \in 1..(i - 1) : lines[j].k # ""
             rest == SplitBlocks(SubSeq(lines, i + 1, Len(lines)))
         IN IF i = 1 THEN rest ELSE <<SubSeq(lines, 1, i - 1)>> \o rest
    ELSE <<lines>>

LineOf(block, k) ==
    IF \E i \in 1..Len(block) : block[i].k = k
    THEN block[CHOOSE i \in 1..Len(block) : block[i].k = k].v
    ELSE <<>>

WithoutPrefix(ref) ==
    IF Len(ref) >= 2 /\ ref[1] = "refs" /\ ref[2] = "heads" THEN SubSeq(ref, 3, Len(ref)) ELSE ref

RecordOf(block) ==
    [path |-> LineOf(block, "worktree"),
     commit |-> SubSeq(LineOf(block, "HEAD"), 1, 7),
     branch |-> JoinSlash(WithoutPrefix(LineOf(block, "branch")))]

\* C16 as stated: list_worktrees gives one record per block of the listing, in
\* order, the last block included when no blank line follows it; a record has
\* the path, the first 7 characters of HEAD and the branch without its
\* refs/heads/ prefix ("" when the block names no branch); a failing git gives
\* the empty list.
C16_OneRecordPerBlock ==
    args.fn = "list_worktrees" =>
        ret = IF "worktree list" \in args.o.failing THEN <<>>
              ELSE [ i \in 1..Len(SplitBlocks(args.o.stdout)) |->
                       RecordOf(SplitBlocks(args.o.stdout)[i]) ]

\* what list_worktrees lists for the call recorded in args, the main tree left out
ListedOthers ==
    SelectSeq(list_worktrees(Process(NoEnv, args.git_root, args.o), args.git_root, args.o).ret,
              LAMBDA w : w.path # args.git_root)

\* C17: find_project_workspaces returns (git_root, "main") first; when the
\* sibling directory <project>-worktrees exists, one entry follows for every
\* listed worktree other than git_root, keyed by its branch or, without a
\* branch, by its directory name; when the directory does not exist the main
\* entry is all.
C17_WorkspacesOfProject ==
    args.fn = "find_project_workspaces" =>
        /\ Len(ret) >= 1
        /\ ret[1] = [path |-> args.git_root, type |-> "main"]
        /\ IF <<"home", "App-worktrees">> \in fs.dirs
           THEN /\ Len(ret) = 1 + Len(ListedOthers)
                /\ \A i \in 1..Len(ListedOthers) :
                      /\ ret[i + 1].path = ListedOthers[i].path
                      /\ ret[i + 1].type = IF ListedOthers[i].branch # ""
                                           THEN ListedOthers[i].branch
                                           ELSE ListedOthers[i].path[Len(ListedOthers[i].path)]
           ELSE Len(ret) = 1

\* the directory exists, git lists a worktree on branch feat and a detached one
C17_Witness ==
    /\ args.fn = "find_project_workspaces"
    /\ <<"home", "App-worktrees">> \in fs.dirs
    /\ ret = << [path |-> <<"home", "App">>, type |-> "main"],
                [path |-> <<"home", "App-worktrees", "feat">>, type |-> "feat"],
                [path |-> <<"home", "App-worktrees", "t">>, type |-> "t"] >>

\* C18: find_stale_worktrees returns exactly the listed worktrees other than
\* git_root whose directory is not on disk, each with its branch; never the
\* main tree, never a worktree whose directory exists.
C18_StaleWorktrees ==
    args.fn = "find_stale_worktrees" =>
        LET missing == SelectSeq(ListedOthers, LAMBDA w : w.path \notin fs.dirs) IN
        /\ Len(ret) = Len(missing)
        /\ \A i \in 1..Len(ret) :
              ret[i] = [path |-> missing[i].path, branch |-> missing[i].branch]
        /\ \A i \in 1..Len(ret) : ret[i].path # args.git_root /\ ret[i].path \notin fs.dirs

\* git lists feat, whose directory exists, and t, whose directory is gone
C18_Witness ==
    /\ args.fn = "find_stale_worktrees"
    /\ <<"home", "App-worktrees", "feat">> \in fs.dirs
    /\ Len(ListedOthers) = 2 /\ ListedOthers[1].path = <<"home", "App-worktrees", "feat">>
    /\ ret = << [path |-> <<"home", "App-worktrees", "t">>, branch |-> ""] >>

\* C19: attach mode attaches only when a git root is found and the container
\* of that root is running; otherwise it exits with an error; it never starts
\* a container and never writes a file.
C19_AttachOnlyToRunning ==
    [][Invocation /\ Orchestrators(log') = <<"attach">>
       => LET git_root == find_git_root_from(fs, StartCwd(log'))
              attaches == Events(log', {"devcontainer exec tmux"})
          IN /\ Events(log', {"devcontainer up", "scaffold", "sync", "mkdir", "git init"}) = <<>>
             /\ fs' = fs /\ repo' = repo /\ containers' = containers
             /\ Len(attaches) <= 1
             /\ attaches # <<>> =>
                   /\ git_root # None
                   /\ attaches[1].path = git_root[1]
                   /\ \E k \in 1..Len(containers) :
                         containers[k].folder = git_root[1] /\ containers[k].state = "running"
                   /\ status' = "ok"
             /\ attaches = <<>> => status' = "error" /\ log'[Len(log')].op = "sys.exit"]_vars

\* --attach in a repository whose container exists but is stopped: an error,
\* and the container stays stopped
C19_Witness ==
    /\ status = "error" /\ Orchestrators(log) = <<"attach">>
    /\ \E i \in 1..Len(log) :
          log[i].op = "sys.exit" /\ log[i].arg = "Error: Container is not running. Use yolo to start it."
    /\ \E k \in 1..Len(containers) :
          containers[k].folder = ProjectRoot /\ containers[k].state = "exited"

\* C20: get_secrets never fails and returns a value for both keys: the
\* store's output for a key whose query succeeded, otherwise (no store, query
\* failed or timed out) the environment variable, or "" when that is unset;
\* one key's failure leaves the other key's value alone.
C20_SecretsPerKey ==
    args.fn = "get_secrets" =>
        /\ status = "ok"
        /\ DOMAIN ret = {"ANTHROPIC_API_KEY", "OPENAI_API_KEY"}
        /\ \A key \in {"ANTHROPIC_API_KEY", "OPENAI_API_KEY"} :
              ret[key] = IF args.o.pass_available /\ key \in args.o.pass_ok
                         THEN "pass:" \o (IF key = "ANTHROPIC_API_KEY"
                                          THEN args.config.pass_path_anthropic
                                          ELSE args.config.pass_path_openai)
                         ELSE IF key \in DOMAIN environ THEN environ[key]
                         ELSE ""

\* the store answers for openai only; anthropic comes from the environment
C20_Witness ==
    /\ args.fn = "get_secrets" /\ args.o.pass_available
    /\ args.o.pass_ok = {"OPENAI_API_KEY"}
    /\ "ANTHROPIC_API_KEY" \in DOMAIN environ /\ "OPENAI_API_KEY" \in DOMAIN environ
    /\ ret["ANTHROPIC_API_KEY"] = "env:ANTHROPIC_API_KEY"
    /\ ret["OPENAI_API_KEY"] = "pass:api/llm/openai"

\* the directories from the root down to start that hold a .git entry, by depth
MarkerDepths(f, start) ==
    { k \in 0..Len(start) :
        Append(SubSeq(start, 1, k), ".git") \in f.dirs \cup DOMAIN f.files }

\* C21: find_git_root(start) returns the nearest directory on the path from
\* start up to the filesystem root, both included, that holds a .git entry, or
\* none when no directory on that path holds one; it changes nothing.
C21_NearestGitRoot ==
    [][DirectCall("find_git_root")
       => /\ status' = "ok"
          /\ ret' = IF MarkerDepths(fs, args'.start_path) = {} THEN <<>>
                    ELSE <<SubSeq(args'.start_path, 1,
                                  CHOOSE k \in MarkerDepths(fs, args'.start_path) :
                                     \A j \in MarkerDepths(fs, args'.start_path) : j <= k)>>
          /\ fs' = fs /\ containers' = containers /\ repo' = repo]_vars

\* only the filesystem root holds .git: found from a directory below it
C21_Witness ==
    /\ args.fn = "find_git_root" /\ args.start_path = <<"home">>
    /\ <<".git">> \in fs.dirs /\ <<"home", ".git">> \notin fs.dirs
    /\ ret = <<<<>>>>

\* the components a path string names, its slashes left out
NamedComponents(text) == SelectSeq(text, LAMBDA c : c # "/")

\* the lower-cased final component of a path string, trailing slashes ignored
LoweredFinal(text) ==
    LET name == IF NamedComponents(text) = <<>> THEN ""
                ELSE NamedComponents(text)[Len(NamedComponents(text))]
    IN IF name = "App" THEN "app" ELSE name

\* C22 as stated: get_container_name(path, None) is the lower-cased final
\* component of path, trailing slashes ignored, and get_container_name(path, wt)
\* is that value, a hyphen and wt, for every wt.
C22_ContainerNameAllInputs ==
    args.fn = "get_container_name" =>
        ret = IF args.worktree_name = <<>> THEN LoweredFinal(args.project_path)
              ELSE LoweredFinal(args.project_path) \o "-" \o args.worktree_name[1]

\* C22, amended: get_container_name(path, wt) is the lower-cased final
\* component of path, trailing slashes ignored, when wt is None or the empty
\* string, and that value, a hyphen and wt for every non-empty wt.
C22_ContainerName ==
    args.fn = "get_container_name" =>
        ret = IF args.worktree_name \in {<<>>, <<"">>} THEN LoweredFinal(args.project_path)
              ELSE LoweredFinal(args.project_path) \o "-" \o args.worktree_name[1]

\* /home/App// with worktree feat
C22_Witness ==
    /\ args.fn = "get_container_name"
    /\ args.project_path = <<"/", "home", "/", "App", "/", "/">>
    /\ args.worktree_name = <<"feat">>
    /\ ret = "app-feat"

\* C23 as stated: get_worktree_path(path, name) is
\* parent(path) / (basename(path) + "-worktrees") / name for every path, and
\* the same with and without a trailing slash.
C23_WorktreePath ==
    args.fn = "get_worktree_path" =>
        LET names == NamedComponents(args.project_path)
            parent == IF names = <<>> THEN <<>> ELSE SubSeq(names, 1, Len(names) - 1)
            basename == IF names = <<>> THEN "" ELSE names[Len(names)]
        IN ret = parent \o <<basename \o "-worktrees", args.worktree_name>>

\* a command line of documented flags: every token is a flag, or the NAME of
\* the --tree or --create before it, or the BRANCH of the --from before it
Documented(argv) ==
    \A i \in 1..Len(argv) :
       /\ argv[i] \in {"--create", "--from"} => i < Len(argv) /\ argv[i + 1] \notin OptionLike
       /\ argv[i] \notin OptionLike => i > 1 /\ argv[i - 1] \in {"--tree", "--create", "--from"}

\* C24 as stated: the parser accepts every documented flag; --detach/-d sets
\* detach, --from BRANCH sets from_branch, --verbose/-v sets verbose, each
\* false or none by default and combinable with --tree.
C24_DocumentedFlags ==
    args.fn = "parse_args" /\ Documented(args.argv) =>
        /\ status = "ok"
        /\ {"detach", "from_branch", "verbose"} \subseteq DOMAIN ret
        /\ ret.detach = (\E i \in 1..Len(args.argv) : args.argv[i] \in {"--detach", "-d"})
        /\ ret.verbose = (\E i \in 1..Len(args.argv) : args.argv[i] \in {"--verbose", "-v"})
        /\ ret.from_branch = IF \E i \in 1..Len(args.argv) : args.argv[i] = "--from"
                             THEN <<args.argv[1 + CHOOSE i \in 1..Len(args.argv) :
                                                    /\ args.argv[i] = "--from"
                                                    /\ \A j \in (i + 1)..Len(args.argv) :
                                                          args.argv[j] # "--from"]>>
                             ELSE <<>>
        /\ (\E i \in 1..Len(args.argv) : args.argv[i] = "--tree") => ret.tree # <<>>

\* the root directory of the project an invocation works on: the new
\* project's directory in create mode, the git root of the cwd otherwise
ProjectRootOf(l, a, f) ==
    IF Orchestrators(l) = <<"create">> THEN Append(StartCwd(l), a.create[1])
    ELSE find_git_root_from(f, StartCwd(l))[1]

\* C26 as stated: in default, tree, create and sync mode the project-level
\* configuration file that is read is the one in the project's root
\* directory, wherever the tool is started from.
C26_ConfigOfProjectRoot ==
    Done =>
        \A i \in 1..Len(log) :
           log[i].op = "load_config" =>
              log[i].path = Append(ProjectRootOf(log, args, fs), ".yolo.toml")

\* the file is there and tomllib rejects it
Malformed(f, p) == p \in DOMAIN f.files /\ ~TomlOk(f.files[p])

\* C25 as stated: when the global or the project configuration file exists but
\* is malformed, load_config ends in a parse error and the mode that called it
\* does nothing more (no scaffold, no container start, nothing changed); it
\* never goes on with the defaults as if the file were absent.
C25_MalformedConfigStops ==
    [][Invocation /\ HasEvent(log', "load_config")
          /\ \/ Malformed(fs, GlobalConfigFile)
             \/ Malformed(fs, Append(ProjectRootOf(log', args', fs), ".yolo.toml"))
       => /\ status' = "crash"
          /\ log'[Len(log')].op = "raise" /\ log'[Len(log')].arg = "TOMLDecodeError"
          /\ Events(log', {"scaffold", "sync", "mkdir", "git init", "git worktree add",
                           "copytree", "devcontainer up", "devcontainer exec tmux"}) = <<>>
          /\ fs' = fs /\ containers' = containers /\ repo' = repo]_vars

\* the workspaces find_project_workspaces returns for the project at git_root,
\* and the worktrees git lists, before the invocation
WorkspacesBefore(git_root) ==
    find_project_workspaces(Process(NoEnv, git_root, BaseOracle), git_root, BaseOracle).ret

WorktreesBefore(git_root) ==
    list_worktrees(Process(NoEnv, git_root, BaseOracle), git_root, BaseOracle).ret

\* the paths of the events of the given kind, in order
PathsOf(l, op) == [ i \in 1..Len(Events(l, {op})) |-> Events(l, {op})[i].path ]

PathsIn(records) == [ i \in 1..Len(records) |-> records[i].path ]

\* C27 as stated: plain list mode requires a git root and then prints a
\* running/stopped status line for every workspace find_project_workspaces
\* returns, and lists every worktree except the main tree.
C27_StatusOfEveryWorkspace ==
    [][Invocation /\ Orchestrators(log') = <<"list">> /\ ~args'.all
       => LET git_root == find_git_root_from(fs, StartCwd(log')) IN
          IF git_root = <<>> THEN status' = "error"
          ELSE /\ status' = "ok"
               /\ PathsOf(log', "print status") = PathsIn(WorkspacesBefore(git_root[1]))
               /\ PathsOf(log', "print worktree")
                     = PathsIn(SelectSeq(WorktreesBefore(git_root[1]),
                                         LAMBDA w : w.path # git_root[1]))]_vars

\* C27, amended: plain list mode requires a git root and then prints a
\* running/stopped status line for every workspace find_project_workspaces
\* returns that has a .devcontainer directory, and none for the others; it
\* lists every worktree except the main tree, and changes nothing.
C27_StatusOfDevcontainers ==
    [][Invocation /\ Orchestrators(log') = <<"list">> /\ ~args'.all
       => LET git_root == find_git_root_from(fs, StartCwd(log')) IN
          IF git_root = <<>>
          THEN status' = "error" /\ Events(log', {"print status", "print worktree"}) = <<>>
          ELSE /\ status' = "ok"
               /\ PathsOf(log', "print status")
                     = PathsIn(SelectSeq(WorkspacesBefore(git_root[1]),
                                         LAMBDA w : Append(w.path, ".devcontainer") \in fs.dirs))
               /\ \A i \in 1..Len(log') :
                     log'[i].op = "print status" =>
                        /\ log'[i].arg \in {"running", "stopped"}
                        /\ log'[i].arg = "running" =>
                              \E k \in 1..Len(containers) :
                                 /\ containers[k].folder = log'[i].path
                                 /\ containers[k].state = "running"
               /\ PathsOf(log', "print worktree")
                     = PathsIn(SelectSeq(WorktreesBefore(git_root[1]),
                                         LAMBDA w : w.path # git_root[1]))
               /\ fs' = fs /\ containers' = containers /\ repo' = repo]_vars

\* list after --tree feat in a repository without .devcontainer: a status line
\* for the worktree, none for the main tree, the worktree listed
C27_Witness ==
    /\ status = "ok" /\ Orchestrators(log) = <<"list">> /\ ~args.all
    /\ <<"home", "App", ".devcontainer">> \notin fs.dirs
    /\ PathsOf(log, "print status") = << <<"home", "App-worktrees", "feat">> >>
    /\ Events(log, {"print status"})[1].arg = "running"
    /\ PathsOf(log, "print worktree") = << <<"home", "App-worktrees", "feat">> >>

\* the files inside a .devcontainer directory
DevcontainerFiles(f) ==
    { p \in DOMAIN f.files : \E i \in 1..(Len(p) - 1) : p[i] = ".devcontainer" }

\* C28: an invocation of a mode other than sync (default, tree, create, list,
\* stop, prune, attach) leaves every file of a .devcontainer directory that
\* existed before it as it was; only sync mode rewrites such files.
C28_OnlySyncRewrites ==
    [][Invocation /\ Orchestrators(log') # <<"sync">>
       => \A p \in DevcontainerFiles(fs) :
             p \in DOMAIN fs'.files /\ fs'.files[p] = fs.files[p]]_vars

\* default mode in a repository with a hand-written .devcontainer: the
\* container is started and the manifest is still the hand-written one
C28_Witness ==
    /\ status = "ok" /\ Orchestrators(log) = <<"default">>
    /\ HasEvent(log, "warning") /\ HasEvent(log, "devcontainer up")
    /\ <<"home", "App", ".devcontainer", "devcontainer.json">> \in DOMAIN fs.files
    /\ fs.files[<<"home", "App", ".devcontainer", "devcontainer.json">>] = <<"existing">>

\* C29 as stated: when get_or_create_worktree is called for a path that does
\* not exist and git worktree add succeeds, it returns normally and the new
\* worktree's manifest has the bind mount of <git_root>/.git as its last
\* mount, whether the parent repository has no .devcontainer, an untracked
\* one or a committed one (here: whenever the parent's manifest, if any, is
\* well-formed).
C29_NewWorktreeGetsGitMount ==
    [][Invocation /\ Orchestrators(log') = <<"tree">>
          /\ Events(log', {"git worktree add"}) # <<>>
          /\ Events(log', {"git worktree add"})[1].ok
          /\ (Exists(fs, DevcontainerDir(find_git_root_from(fs, StartCwd(log'))[1]))
                => WellFormedManifest(fs, DevcontainerJson(find_git_root_from(fs, StartCwd(log'))[1])))
       => LET git_root == find_git_root_from(fs, StartCwd(log'))[1]
              worktree_path == Events(log', {"git worktree add"})[1].path
              manifest == DevcontainerJson(worktree_path)
          IN /\ ~Exists(fs, worktree_path)
             /\ \E i \in 1..Len(log') :
                   /\ log'[i].op = "print" /\ log'[i].arg = "Created worktree"
                   /\ log'[i].path = worktree_path
             /\ WellFormedManifest(fs', manifest)
             /\ MountsOf(fs'.files[manifest]) # <<>>
             /\ MountsOf(fs'.files[manifest])[Len(MountsOf(fs'.files[manifest]))]
                   = BindMount(Append(git_root, ".git"))]_vars

\* the world an invocation leaves behind, as a later call of a helper finds
\* it, with the given containers
Later(cs) ==
    [fs |-> fs', containers |-> cs, repo |-> repo', environ |-> NoEnv, cwd |-> cwd',
     log |-> <<>>, status |-> "running"]

\* C30 as stated: after tree mode has created worktree NAME,
\* find_project_workspaces(git_root) contains (get_worktree_path(git_root,
\* NAME), NAME), and a container of that path that is not running is returned
\* by find_stopped_containers_for_project(git_root).
C30_CreatedWorktreeIsFound ==
    [][Invocation /\ Orchestrators(log') = <<"tree">>
          /\ (\E k \in 1..Len(log') : log'[k].op = "print" /\ log'[k].arg = "Created worktree")
       => LET git_root == find_git_root_from(fs, StartCwd(log'))[1]
              name == Events(log', {"git worktree add"})[1].arg
              path == get_worktree_path(StrOf(git_root), name)
              workspaces == find_project_workspaces(Later(containers'), git_root, BaseOracle).ret
              stopped == <<[name |-> "dc-" \o name, folder |-> path, state |-> "exited"]>>
          IN /\ Exists(fs', path)
             /\ \E i \in 1..Len(workspaces) : workspaces[i] = [path |-> path, type |-> name]
             /\ find_stopped_containers_for_project(Later(stopped), git_root, BaseOracle).ret
                   = stopped]_vars

====
